---- MODULE Spec2Model ----
(***************************************************************************)
(* A model of the transaction, migration and connection-cache core of      *)
(* @bunary/orm.                                                            *)
(*                                                                         *)
(* SqliteDriver.transaction and SqliteTransactionDriver.transaction run    *)
(* against one SQLite connection; Migrator.up and Migrator.down run on     *)
(* top of them; getDriver keeps one driver per configuration.              *)
(***************************************************************************)
EXTENDS Integers, Sequences, FiniteSets, TLC

VARIABLES
    db,                       \* the SQLite connection (Database of bun:sqlite)
    stack,                    \* the transaction() calls whose body is running, outermost first
    calls,                    \* one record per transaction() call since the latest outermost call
                              \* began (that call is calls[1]), by call id
    log,                      \* the statements issued to the connection and the body events since
                              \* the latest outermost call began, in order
    clock,                    \* Date.now()
    files,                    \* the names of the files of the migrations directory
    mig,                      \* the Migrator call that is running: its loop variables
    outcome,                  \* how the latest Migrator call ended
    globalOrmConfig,          \* config.ts: <<>> for null, else <<the OrmConfig>>
    driverRegistry,           \* connection.ts: the factory registered for a type, by type
    cachedDriver,             \* connection.ts: 0 for null, else the instance
    cachedConfigHash,         \* connection.ts: <<>> for null, else <<the hash>>
    drivers,                  \* the driver instances constructed so far
    ret,                      \* what the latest connection call did
    pre,                      \* the ledger, schema and directory when the latest Migrator call began
    raised,                   \* the failure of a nested call not yet handled by its caller's body
    globalSavepointCounter,   \* SqliteTransactionDriver.globalSavepointCounter
    state,                    \* QueryBuilderImpl.state of the query builder
    answer,                   \* what the latest call on the query builder did
    builder,                  \* <<>>, or <<the SqliteTableBuilder>> whose callback is running
    executed,                 \* the statements the latest Schema call handed to db.exec
    wrapper,                  \* the query builder a BaseModel subclass returned: "none",
                              \* "plain" (a QueryBuilderImpl) or "wrapped"
    runs,                     \* the executions of Migrator.up() that may overlap, by caller
    jobs                      \* the promise jobs the event loop has queued, oldest first

vars == <<db, stack, calls, log, clock, raised, globalSavepointCounter,
          files, mig, outcome, pre,
          globalOrmConfig, driverRegistry, cachedDriver, cachedConfigHash, drivers, ret,
          state, answer, builder, executed, wrapper, runs, jobs>>

qbVars == <<state, answer>>

tbVars == <<builder, executed>>

upVars == <<runs, jobs>>

\* The connection, the migrator and the driver cache.
baseVars == <<db, stack, calls, log, clock, raised, globalSavepointCounter,
              files, mig, outcome, pre,
              globalOrmConfig, driverRegistry, cachedDriver, cachedConfigHash, drivers, ret,
              upVars>>

\* Everything but the query builder.
otherVars == <<baseVars, tbVars, wrapper>>

connVars == <<globalOrmConfig, driverRegistry, cachedDriver, cachedConfigHash, drivers, ret>>

(***************************************************************************)
(* Bounds.                                                                 *)
(***************************************************************************)
MaxNested == 2       \* nested transaction() calls of the process
MaxRows == 3         \* rows of the table the bodies insert into
MaxClock == 1        \* the latest value of Date.now()
MaxLog == 10         \* events of one outermost call before its bodies only settle
MaxNames == 3        \* migration files
MaxLedgerId == 4     \* the highest AUTOINCREMENT id of a ledger row
MaxStepsArg == 2     \* the highest options.steps of down()
MaxDirect == 2       \* ledger rows written with MigrationsRepository.log, the first of the ledger
MaxBatchArg == 1     \* the highest batch of such a row
MaxOverlap == 3      \* transaction() calls of a process whose asynchronous bodies overlap
MaxDrivers == 2      \* driver instances constructed by the process
MaxFactories == 2    \* driver factories of the application
MaxTable == 3        \* rows of table users
MaxChain == 2        \* builder calls that show in the state of a query builder
MaxLimit == 2        \* the highest argument of limit()
MaxOffset == 2       \* the highest argument of offset()
MaxValue == 2        \* the highest value a where() compares with
MaxColumns == 2      \* columns of one table builder
MaxConstraints == 1  \* indexes and table constraints of one table builder
MaxUps == 2          \* callers of Migrator.up() whose executions may overlap
MaxCloses == 1       \* close() calls during one outermost transaction() call
MaxExecs == 2        \* exec() calls of NextExec during one outermost transaction() call
MaxCalls == 4        \* calls of one callback that show in the state of its table builder

(***************************************************************************)
(* The connection.  content is what a query sees; committed is what a      *)
(* ROLLBACK returns to; sps is the savepoint stack, oldest first; open is  *)
(* FALSE once Database.close() was called.                                 *)
(***************************************************************************)
EmptyContent ==
    [rows |-> {}, seq |-> 0,                             \* the table the bodies insert into
     table |-> FALSE, ledger |-> {}, ledgerSeq |-> 0,    \* the migrations table
     schema |-> {}]                                      \* the units whose change is in place

NewDatabase ==
    [content |-> EmptyContent, committed |-> EmptyContent, inTx |-> FALSE, sps |-> <<>>,
     open |-> TRUE]

SpIndex(d, name) ==
    LET hits == {i \in 1..Len(d.sps) : d.sps[i].name = name}
    IN  IF hits = {} THEN 0 ELSE CHOOSE i \in hits : \A j \in hits : j <= i

\* BEGIN TRANSACTION: an error inside a transaction and on a closed connection.
SqlBegin(d) ==
    IF d.inTx \/ ~d.open
    THEN [ok |-> FALSE, db |-> d]
    ELSE [ok |-> TRUE, db |-> [d EXCEPT !.inTx = TRUE, !.committed = d.content]]

\* COMMIT: an error outside a transaction; ends every savepoint.
SqlCommit(d) ==
    IF ~d.inTx
    THEN [ok |-> FALSE, db |-> d]
    ELSE [ok |-> TRUE,
          db |-> [d EXCEPT !.inTx = FALSE, !.committed = d.content, !.sps = <<>>]]

\* ROLLBACK: an error outside a transaction; ends every savepoint.
SqlRollback(d) ==
    IF ~d.inTx
    THEN [ok |-> FALSE, db |-> d]
    ELSE [ok |-> TRUE,
          db |-> [d EXCEPT !.inTx = FALSE, !.content = d.committed, !.sps = <<>>]]

\* SAVEPOINT name: outside a transaction it starts one.
SqlSavepoint(d, name) ==
    [ok |-> TRUE,
     db |-> [d EXCEPT !.inTx = TRUE,
                      !.committed = IF d.inTx THEN d.committed ELSE d.content,
                      !.sps = Append(d.sps, [name |-> name, snap |-> d.content,
                                             txStart |-> ~d.inTx])]]

\* RELEASE SAVEPOINT name: an error when there is no such savepoint; removes the
\* savepoint and every later one, and commits when the savepoint started the
\* transaction.
SqlRelease(d, name) ==
    LET i == SpIndex(d, name)
    IN  IF i = 0
        THEN [ok |-> FALSE, db |-> d]
        ELSE IF d.sps[i].txStart
             THEN [ok |-> TRUE,
                   db |-> [d EXCEPT !.inTx = FALSE, !.committed = d.content, !.sps = <<>>]]
             ELSE [ok |-> TRUE, db |-> [d EXCEPT !.sps = SubSeq(d.sps, 1, i - 1)]]

\* ROLLBACK TO SAVEPOINT name: an error when there is no such savepoint; restores
\* the content of the time of the savepoint, removes every later savepoint and
\* keeps the savepoint itself and the transaction.
SqlRollbackTo(d, name) ==
    LET i == SpIndex(d, name)
    IN  IF i = 0
        THEN [ok |-> FALSE, db |-> d]
        ELSE [ok |-> TRUE,
              db |-> [d EXCEPT !.content = d.sps[i].snap, !.sps = SubSeq(d.sps, 1, i)]]

\* A statement that changes the content to c: committed at once in autocommit mode.
SqlWrite(d, c) ==
    [d EXCEPT !.content = c, !.committed = IF d.inTx THEN d.committed ELSE c]

\* A statement failing with an error on which SQLite rolls the transaction back.
SqlAbort(d) ==
    [d EXCEPT !.inTx = FALSE, !.content = d.committed, !.sps = <<>>]

(***************************************************************************)
(* Values, errors and events.                                              *)
(***************************************************************************)
NoError == [err |-> "none", at |-> 0]
BodyError(id) == [err |-> "body", at |-> id]
EngineError(stmt) == [err |-> stmt, at |-> 0]
BodyValue(id) == [val |-> id]

Ev(e, id, ok) == [ev |-> e, call |-> id, ok |-> ok]

Row(n, id) == [id |-> n, by |-> id]

\* The rows of c as a later outermost call finds them: written by none of its calls.
Earlier(c) == [c EXCEPT !.rows = {Row(r.id, 0) : r \in c.rows}]

InsertRow(d, id) ==
    SqlWrite(d, [d.content EXCEPT !.rows = @ \cup {Row(d.content.seq + 1, id)},
                                  !.seq = @ + 1])

(***************************************************************************)
(* SqliteDriver.transaction: the code after the body has settled.          *)
(***************************************************************************)
\* A slip: the promise resolves and no COMMIT is issued.
M_OuterSuccess_NoCommit(d, id, v) ==
    [db |-> d, promise |-> "resolved", value |-> v, error |-> NoError, evs |-> <<>>]

\* The body returned v, or its promise resolved with v: COMMIT and resolve; a
\* failing COMMIT is caught like a body failure.
OuterSuccess(d, id, v) ==
    LET c == SqlCommit(d)
        r == SqlRollback(c.db)
    IN  IF c.ok
        THEN [db |-> c.db, promise |-> "resolved", value |-> v, error |-> NoError,
              evs |-> <<Ev("COMMIT", id, TRUE)>>]
        ELSE [db |-> r.db, promise |-> "rejected", value |-> BodyValue(0),
              error |-> EngineError("COMMIT"),
              evs |-> <<Ev("COMMIT", id, FALSE), Ev("ROLLBACK", id, r.ok)>>]

\* A slip: the failure path commits.
M_OuterFailure_Commits(d, id, e) ==
    LET c == SqlCommit(d)
    IN  [db |-> c.db, promise |-> "rejected", value |-> BodyValue(0), error |-> e,
         evs |-> <<Ev("COMMIT", id, c.ok)>>]

\* A slip: the error of a failing ROLLBACK is not caught and replaces the body's.
M_OuterFailure_Masks(d, id, e) ==
    LET r == SqlRollback(d)
    IN  [db |-> r.db, promise |-> "rejected", value |-> BodyValue(0),
         error |-> IF r.ok THEN e ELSE EngineError("ROLLBACK"),
         evs |-> <<Ev("ROLLBACK", id, r.ok)>>]

\* A slip: the failure path rejects and issues no ROLLBACK.
M_OuterFailure_NoRollback(d, id, e) ==
    [db |-> d, promise |-> "rejected", value |-> BodyValue(0), error |-> e, evs |-> <<>>]

\* The body threw e, or its promise rejected with e: ROLLBACK, ignoring its
\* failure, and reject with e.
OuterFailure(d, id, e) ==
    LET r == SqlRollback(d)
    IN  [db |-> r.db, promise |-> "rejected", value |-> BodyValue(0), error |-> e,
         evs |-> <<Ev("ROLLBACK", id, r.ok)>>]

(***************************************************************************)
(* SqliteTransactionDriver.transaction: the code after the body has        *)
(* settled.  savepointReleased is FALSE whenever the code reads it: it is  *)
(* set only after a statement that ends the call's handler.  A synchronous *)
(* body makes the call throw, an asynchronous one makes it reject.         *)
(***************************************************************************)
FailedAs(async) == IF async THEN "rejected" ELSE "thrown"

\* A slip: the savepoint of a successful body is left open.
M_NestedSuccess_NoRelease(d, f, v) ==
    [db |-> d, promise |-> "resolved", value |-> v, error |-> NoError, evs |-> <<>>]

NestedSuccess(d, f, v) ==
    LET r == SqlRelease(d, f.sp)
        b == SqlRollbackTo(r.db, f.sp)
    IN  IF r.ok
        THEN [db |-> r.db, promise |-> "resolved", value |-> v, error |-> NoError,
              evs |-> <<Ev("RELEASE", f.id, TRUE)>>]
        ELSE [db |-> b.db, promise |-> FailedAs(f.async), value |-> BodyValue(0),
              error |-> EngineError("RELEASE"),
              evs |-> <<Ev("RELEASE", f.id, FALSE), Ev("ROLLBACK TO", f.id, b.ok)>>]

\* A slip: the failure of a nested body rolls the whole transaction back.
M_NestedFailure_RollsBackAll(d, f, e) ==
    LET r == SqlRollback(d)
    IN  [db |-> r.db, promise |-> FailedAs(f.async), value |-> BodyValue(0), error |-> e,
         evs |-> <<Ev("ROLLBACK TO", f.id, r.ok)>>]

NestedFailure(d, f, e) ==
    LET b == SqlRollbackTo(d, f.sp)
    IN  [db |-> b.db, promise |-> FailedAs(f.async), value |-> BodyValue(0), error |-> e,
         evs |-> <<Ev("ROLLBACK TO", f.id, b.ok)>>]

(***************************************************************************)
(* The calls.  A frame is a transaction() call whose body is running; a    *)
(* body that returns a promise (async) can await a nested call, a body     *)
(* that returns a plain value can only make nested calls whose body is     *)
(* synchronous too.                                                        *)
(***************************************************************************)
NoRaise == [error |-> NoError, from |-> 0]

Top == stack[Len(stack)]


NewCall(id, kind, parent, async, sp) ==
    [id |-> id, kind |-> kind, parent |-> parent, async |-> async, sp |-> sp,
     body |-> "running", bodyValue |-> BodyValue(0), bodyError |-> NoError,
     promise |-> "pending", value |-> BodyValue(0), error |-> NoError,
     writes |-> {}, caught |-> FALSE]

Frame(id, kind, async, sp) == [id |-> id, kind |-> kind, async |-> async, sp |-> sp]

\* SqliteDriver.transaction up to the invocation of the body.
CallOuter(async) ==
    /\ stack = <<>>
    /\ raised = NoRaise
    /\ UNCHANGED clock
    /\ LET id == 1
           b == SqlBegin([db EXCEPT !.content = Earlier(@), !.committed = Earlier(@)])
           c == NewCall(id, "outer", 0, async, <<>>)
       IN  /\ db' = b.db
           /\ IF b.ok
              THEN /\ stack' = <<Frame(id, "outer", async, <<>>)>>
                   /\ calls' = <<c>>
                   /\ log' = <<Ev("BEGIN", id, TRUE), Ev("invoke", id, TRUE)>>
              ELSE /\ stack' = stack
                   /\ calls' = <<[c EXCEPT !.body = "none", !.promise = "rejected",
                                            !.error = EngineError("BEGIN")]>>
                   /\ log' = <<Ev("BEGIN", id, FALSE)>>
    /\ UNCHANGED <<raised, globalSavepointCounter>>

\* A slip: the name is made of the time alone.
M_SavepointName_TimeOnly(counter, now) == <<0, now>>

\* `sp_${counter}_${Date.now()}`
SavepointName(counter, now) == <<counter, now>>

\* SqliteTransactionDriver.transaction up to the invocation of the body.
CallNested(async) ==
    /\ stack # <<>>
    /\ raised = NoRaise
    /\ globalSavepointCounter < MaxNested
    /\ Len(log) < MaxLog
    /\ async => Top.async
    /\ LET id == Len(calls) + 1
           name == SavepointName(globalSavepointCounter + 1, clock)
           s == SqlSavepoint(db, name)
       IN  /\ globalSavepointCounter' = globalSavepointCounter + 1
           /\ db' = s.db
           /\ stack' = Append(stack, Frame(id, "nested", async, name))
           /\ calls' = Append(calls, NewCall(id, "nested", Top.id, async, name))
           /\ log' = log \o <<Ev("SAVEPOINT", id, TRUE), Ev("invoke", id, TRUE)>>
    /\ UNCHANGED <<raised, clock>>

\* The running body executes a statement through its handle.
BodyExec ==
    /\ stack # <<>>
    /\ raised = NoRaise
    /\ db.content.seq < MaxRows
    /\ Len(log) < MaxLog
    /\ db' = InsertRow(db, Top.id)
    /\ calls' = [calls EXCEPT ![Top.id].writes = @ \cup {Row(db.content.seq + 1, Top.id)}]
    /\ log' = Append(log, Ev("INSERT", Top.id, TRUE))
    /\ UNCHANGED <<stack, raised, clock, globalSavepointCounter>>

\* The code of the call on top of the stack once its body has settled.
Settle(d, f, ok, v, e) ==
    IF f.kind = "outer"
    THEN IF ok THEN OuterSuccess(d, f.id, v) ELSE OuterFailure(d, f.id, e)
    ELSE IF ok THEN NestedSuccess(d, f, v) ELSE NestedFailure(d, f, e)

\* The call on top of the stack ends as s says, after the events before.
Finish(s, before, ok, v, e) ==
    LET f == Top
    IN  /\ db' = s.db
        /\ stack' = SubSeq(stack, 1, Len(stack) - 1)
        /\ calls' = [calls EXCEPT ![f.id].body = IF ok THEN "ok" ELSE "err",
                                  ![f.id].bodyValue = v,
                                  ![f.id].bodyError = e,
                                  ![f.id].promise = s.promise,
                                  ![f.id].value = s.value,
                                  ![f.id].error = s.error]
        /\ log' = log \o before \o <<Ev("settle", f.id, ok)>> \o s.evs
        /\ raised' = IF f.kind = "nested" /\ s.promise # "resolved"
                     THEN [error |-> s.error, from |-> f.id]
                     ELSE NoRaise
        /\ UNCHANGED <<clock, globalSavepointCounter>>

\* The running body returns a value, or the promise it returned resolves.
BodyReturn ==
    /\ stack # <<>>
    /\ raised = NoRaise
    /\ Finish(Settle(db, Top, TRUE, BodyValue(Top.id), NoError), <<>>,
              TRUE, BodyValue(Top.id), NoError)

\* The running body throws an error of its own, or its promise rejects with one.
BodyThrow ==
    /\ stack # <<>>
    /\ raised = NoRaise
    /\ Finish(Settle(db, Top, FALSE, BodyValue(0), BodyError(Top.id)), <<>>,
              FALSE, BodyValue(0), BodyError(Top.id))

\* The body that made a failed nested call does not catch the failure.
BodyPropagate ==
    /\ stack # <<>>
    /\ raised # NoRaise
    /\ Finish(Settle(db, Top, FALSE, BodyValue(0), raised.error), <<>>,
              FALSE, BodyValue(0), raised.error)

\* The body that made a failed nested call catches the failure and goes on.
BodyCatch ==
    /\ stack # <<>>
    /\ raised # NoRaise
    /\ raised' = NoRaise
    /\ calls' = [calls EXCEPT ![raised.from].caught = TRUE]
    /\ UNCHANGED <<db, stack, log, clock, globalSavepointCounter>>

\* A statement of the running body fails with an error on which SQLite has rolled
\* the whole transaction back, and the error leaves the body.
BodyExecAborts ==
    /\ stack # <<>>
    /\ raised = NoRaise
    /\ db.inTx
    /\ LET f == Top
           s == Settle(SqlAbort(db), f, FALSE, BodyValue(0), EngineError("exec"))
       IN  Finish(s, <<Ev("ABORT", f.id, FALSE)>>, FALSE, BodyValue(0), EngineError("exec"))

\* A slip: a failing COMMIT is reported and the transaction left as it is.
M_OuterCommitFails_NoRollback(d, id) ==
    [db |-> d, promise |-> "rejected", value |-> BodyValue(0),
     error |-> EngineError("COMMIT"), evs |-> <<Ev("COMMIT", id, FALSE)>>]

\* The code after a successful body when COMMIT fails and leaves the transaction
\* open (a busy database, a deferred constraint): the error reaches the handler of
\* body failures, which issues ROLLBACK and rejects with the error of COMMIT.
OuterCommitFails(d, id) ==
    LET r == SqlRollback(d)
    IN  [db |-> r.db, promise |-> "rejected", value |-> BodyValue(0),
         error |-> EngineError("COMMIT"),
         evs |-> <<Ev("COMMIT", id, FALSE), Ev("ROLLBACK", id, r.ok)>>]

\* The body of the outermost call returns a value, or its promise resolves, and
\* COMMIT fails.
BodyReturnCommitFails ==
    /\ stack # <<>>
    /\ raised = NoRaise
    /\ Top.kind = "outer"
    /\ db.inTx
    /\ Finish(OuterCommitFails(db, Top.id), <<>>, TRUE, BodyValue(Top.id), NoError)

\* The close() calls made since the latest outermost call began.
Closes == Cardinality({i \in 1..Len(log) : log[i].ev = "close"})

\* A slip: close() on a handle closes the connection, which ends its transaction.
M_HandleClose_ClosesConnection ==
    /\ stack # <<>>
    /\ raised = NoRaise
    /\ Closes < MaxCloses
    /\ Len(log) < MaxLog
    /\ db' = [SqlAbort(db) EXCEPT !.open = FALSE]
    /\ log' = Append(log, Ev("close", Top.id, TRUE))
    /\ UNCHANGED <<stack, calls, raised, clock, globalSavepointCounter>>

\* The running body calls close() on its handle: SqliteTransactionDriver.close() has
\* an empty body.
HandleClose ==
    /\ stack # <<>>
    /\ raised = NoRaise
    /\ Closes < MaxCloses
    /\ Len(log) < MaxLog
    /\ log' = Append(log, Ev("close", Top.id, TRUE))
    /\ UNCHANGED <<db, stack, calls, raised, clock, globalSavepointCounter>>

\* SqliteDriver.close(), called while no transaction() call is running.
DriverClose ==
    /\ stack = <<>>
    /\ db.open
    /\ db' = [db EXCEPT !.open = FALSE]
    /\ log' = Append(log, Ev("close", 0, TRUE))
    /\ UNCHANGED <<stack, calls, raised, clock, globalSavepointCounter>>

\* The statements given to exec(): one inserts a row, one deletes every row, one is
\* DDL and changes no row.
Statements == {"INSERT", "DELETE", "CREATE INDEX"}

\* What the engine does with statement stmt given by call id: the new connection and
\* the number of rows the statement changed.
Engine(d, stmt, id) ==
    IF stmt = "INSERT" THEN [db |-> InsertRow(d, id), changes |-> 1]
    ELSE IF stmt = "DELETE"
    THEN [db |-> SqlWrite(d, [d.content EXCEPT !.rows = {}]),
          changes |-> Cardinality(d.content.rows)]
    ELSE [db |-> d, changes |-> 0]

\* exec(sql, ...params) of SqliteDriver and of SqliteTransactionDriver: both run the
\* statement and return 1.
exec(d, stmt, id) ==
    LET r == Engine(d, stmt, id)
    IN  [db |-> r.db, returned |-> 1, changes |-> r.changes]

ExecEv(stmt, id, r) ==
    [ev |-> "exec", call |-> id, ok |-> TRUE, sql |-> stmt,
     returned |-> r.returned, changes |-> r.changes]

Execs == Cardinality({i \in 1..Len(log) : log[i].ev = "exec"})

\* exec() on the driver while no transaction() call is running.
DriverExec(stmt) ==
    /\ stack = <<>>
    /\ db.open
    /\ Execs < MaxExecs
    /\ Len(log) < MaxLog
    /\ stmt = "INSERT" => db.content.seq < MaxRows
    /\ LET r == exec(db, stmt, 0)
       IN  /\ db' = r.db
           /\ log' = Append(log, ExecEv(stmt, 0, r))
    /\ UNCHANGED <<stack, calls, raised, clock, globalSavepointCounter>>

\* exec() on the handle of the running body.
HandleExec(stmt) ==
    /\ stack # <<>>
    /\ raised = NoRaise
    /\ Execs < MaxExecs
    /\ Len(log) < MaxLog
    /\ stmt = "INSERT" => db.content.seq < MaxRows
    /\ LET r == exec(db, stmt, Top.id)
       IN  /\ db' = r.db
           /\ log' = Append(log, ExecEv(stmt, Top.id, r))
    /\ UNCHANGED <<stack, calls, raised, clock, globalSavepointCounter>>

\* A slip: the ambient driver has a connection of its own, in autocommit mode.
M_AmbientExec_OwnConnection ==
    /\ stack # <<>>
    /\ raised = NoRaise
    /\ db.content.seq < MaxRows
    /\ Len(log) < MaxLog
    /\ LET row == Row(db.content.seq + 1, Top.id)
       IN  /\ db' = [db EXCEPT !.content.rows = @ \cup {row}, !.content.seq = @ + 1,
                                !.committed.rows = @ \cup {row}, !.committed.seq = @ + 1]
           /\ calls' = [calls EXCEPT ![Top.id].writes = @ \cup {row}]
           /\ log' = Append(log, Ev("ambient", Top.id, TRUE))
    /\ UNCHANGED <<stack, raised, clock, globalSavepointCounter>>

\* The running body executes a statement through getDriver() or through the driver
\* transaction() was called on, as the up and down operations of a migration unit
\* do: the driver and the handle hold the same Database.
AmbientExec ==
    /\ stack # <<>>
    /\ raised = NoRaise
    /\ db.content.seq < MaxRows
    /\ Len(log) < MaxLog
    /\ db' = exec(db, "INSERT", Top.id).db
    /\ calls' = [calls EXCEPT ![Top.id].writes = @ \cup {Row(db.content.seq + 1, Top.id)}]
    /\ log' = Append(log, Ev("ambient", Top.id, TRUE))
    /\ UNCHANGED <<stack, raised, clock, globalSavepointCounter>>

\* Time passes between two outermost calls.
Tick ==
    /\ stack = <<>>
    /\ clock < MaxClock
    /\ clock' = clock + 1
    /\ UNCHANGED <<db, stack, calls, log, raised, globalSavepointCounter>>

TxIdle ==
    /\ db = NewDatabase
    /\ stack = <<>>
    /\ calls = <<>>
    /\ log = <<>>
    /\ clock = 0
    /\ raised = NoRaise
    /\ globalSavepointCounter = 0

migVars == <<files, mig, outcome, pre>>

\* What a Migrator call found when it began.
Before(d, fs) ==
    [ledger |-> d.content.ledger, schema |-> d.content.schema,
     ledgerSeq |-> d.content.ledgerSeq, files |-> fs]

NextTx ==
    \/ (\E async \in BOOLEAN : CallOuter(async)) /\ UNCHANGED <<migVars, connVars, qbVars, tbVars, wrapper, upVars>>
    \/ (\E async \in BOOLEAN : CallNested(async)) /\ UNCHANGED <<migVars, connVars, qbVars, tbVars, wrapper, upVars>>
    \/ BodyExec /\ UNCHANGED <<migVars, connVars, qbVars, tbVars, wrapper, upVars>>
    \/ BodyReturn /\ UNCHANGED <<migVars, connVars, qbVars, tbVars, wrapper, upVars>>
    \/ BodyThrow /\ UNCHANGED <<migVars, connVars, qbVars, tbVars, wrapper, upVars>>
    \/ BodyPropagate /\ UNCHANGED <<migVars, connVars, qbVars, tbVars, wrapper, upVars>>
    \/ BodyCatch /\ UNCHANGED <<migVars, connVars, qbVars, tbVars, wrapper, upVars>>
    \/ Tick /\ UNCHANGED <<migVars, connVars, qbVars, tbVars, wrapper, upVars>>

\* The calls of NextTx at one time of the clock and close() on a handle and on the
\* driver.
NextClose ==
    \/ (\E async \in BOOLEAN : CallOuter(async)) /\ UNCHANGED <<migVars, connVars, qbVars, tbVars, wrapper, upVars>>
    \/ (\E async \in BOOLEAN : CallNested(async)) /\ UNCHANGED <<migVars, connVars, qbVars, tbVars, wrapper, upVars>>
    \/ BodyExec /\ UNCHANGED <<migVars, connVars, qbVars, tbVars, wrapper, upVars>>
    \/ BodyReturn /\ UNCHANGED <<migVars, connVars, qbVars, tbVars, wrapper, upVars>>
    \/ BodyThrow /\ UNCHANGED <<migVars, connVars, qbVars, tbVars, wrapper, upVars>>
    \/ BodyPropagate /\ UNCHANGED <<migVars, connVars, qbVars, tbVars, wrapper, upVars>>
    \/ BodyCatch /\ UNCHANGED <<migVars, connVars, qbVars, tbVars, wrapper, upVars>>
    \/ HandleClose /\ UNCHANGED <<migVars, connVars, qbVars, tbVars, wrapper, upVars>>
    \/ DriverClose /\ UNCHANGED <<migVars, connVars, qbVars, tbVars, wrapper, upVars>>

\* transaction() calls whose bodies make no call but exec(), and exec() on the driver.
NextExec ==
    \/ (\E async \in BOOLEAN : CallOuter(async)) /\ UNCHANGED <<migVars, connVars, qbVars, tbVars, wrapper, upVars>>
    \/ (\E async \in BOOLEAN : CallNested(async)) /\ UNCHANGED <<migVars, connVars, qbVars, tbVars, wrapper, upVars>>
    \/ BodyReturn /\ UNCHANGED <<migVars, connVars, qbVars, tbVars, wrapper, upVars>>
    \/ BodyThrow /\ UNCHANGED <<migVars, connVars, qbVars, tbVars, wrapper, upVars>>
    \/ \E stmt \in Statements :
           DriverExec(stmt) /\ UNCHANGED <<migVars, connVars, qbVars, tbVars, wrapper, upVars>>
    \/ \E stmt \in Statements :
           HandleExec(stmt) /\ UNCHANGED <<migVars, connVars, qbVars, tbVars, wrapper, upVars>>

NextFault ==
    \/ NextTx
    \/ BodyExecAborts /\ UNCHANGED <<migVars, connVars, qbVars, tbVars, wrapper, upVars>>

(***************************************************************************)
(* Overlapping calls.  Every body is asynchronous and the calls are made   *)
(* without awaiting the earlier ones: between two awaits of a body, any    *)
(* other body may run.  A call runs as far as the invocation of its body   *)
(* in one step, and the handler of its body's promise in one step.  The    *)
(* statements are those of transaction() itself, and only the calls are    *)
(* recorded.                                                               *)
(***************************************************************************)
Pending == {i \in 1..Len(calls) : calls[i].promise = "pending"}

Handles == {i \in 1..Len(calls) : calls[i].body # "none"}

\* driver.transaction(async body), whatever else is running.
OverlapOuter ==
    /\ Len(calls) < MaxOverlap
    /\ LET id == Len(calls) + 1
           b == SqlBegin(db)
           c == NewCall(id, "outer", 0, TRUE, <<>>)
       IN  /\ db' = b.db
           /\ IF b.ok
              THEN calls' = Append(calls, c)
              ELSE calls' = Append(calls, [c EXCEPT !.body = "none",
                                                    !.promise = "rejected",
                                                    !.error = EngineError("BEGIN")])
    /\ UNCHANGED <<stack, log, raised, clock, globalSavepointCounter>>

\* tx.transaction(async body) on the handle of call p.
OverlapNested(p) ==
    /\ p \in Handles
    /\ Len(calls) < MaxOverlap
    /\ globalSavepointCounter < MaxNested
    /\ LET id == Len(calls) + 1
           name == SavepointName(globalSavepointCounter + 1, clock)
           s == SqlSavepoint(db, name)
       IN  /\ globalSavepointCounter' = globalSavepointCounter + 1
           /\ db' = s.db
           /\ calls' = Append(calls, NewCall(id, "nested", p, TRUE, name))
    /\ UNCHANGED <<stack, log, raised, clock>>

\* The promise of the body of call p resolves (ok) or rejects.
OverlapSettle(p, ok) ==
    /\ p \in Pending
    /\ LET c == calls[p]
           v == IF ok THEN BodyValue(p) ELSE BodyValue(0)
           e == IF ok THEN NoError ELSE BodyError(p)
           s == Settle(db, Frame(p, c.kind, TRUE, c.sp), ok, v, e)
       IN  /\ db' = s.db
           /\ calls' = [calls EXCEPT ![p].body = IF ok THEN "ok" ELSE "err",
                                     ![p].bodyValue = v,
                                     ![p].bodyError = e,
                                     ![p].promise = s.promise,
                                     ![p].value = s.value,
                                     ![p].error = s.error]
    /\ UNCHANGED <<stack, log, raised, clock, globalSavepointCounter>>

\* Time passes while bodies wait.
OverlapTick ==
    /\ clock < MaxClock
    /\ clock' = clock + 1
    /\ UNCHANGED <<db, stack, calls, log, raised, globalSavepointCounter>>

NextOverlap ==
    \/ OverlapOuter /\ UNCHANGED <<migVars, connVars, qbVars, tbVars, wrapper, upVars>>
    \/ (\E p \in 1..MaxOverlap : OverlapNested(p)) /\ UNCHANGED <<migVars, connVars, qbVars, tbVars, wrapper, upVars>>
    \/ (\E p \in 1..MaxOverlap, ok \in BOOLEAN : OverlapSettle(p, ok))
           /\ UNCHANGED <<migVars, connVars, qbVars, tbVars, wrapper, upVars>>
    \/ OverlapTick /\ UNCHANGED <<migVars, connVars, qbVars, tbVars, wrapper, upVars>>

\* The calls of NextTx at one time of the clock and statements through the ambient
\* driver.
NextAmbient ==
    \/ (\E async \in BOOLEAN : CallOuter(async)) /\ UNCHANGED <<migVars, connVars, qbVars, tbVars, wrapper, upVars>>
    \/ (\E async \in BOOLEAN : CallNested(async)) /\ UNCHANGED <<migVars, connVars, qbVars, tbVars, wrapper, upVars>>
    \/ BodyExec /\ UNCHANGED <<migVars, connVars, qbVars, tbVars, wrapper, upVars>>
    \/ BodyReturn /\ UNCHANGED <<migVars, connVars, qbVars, tbVars, wrapper, upVars>>
    \/ BodyThrow /\ UNCHANGED <<migVars, connVars, qbVars, tbVars, wrapper, upVars>>
    \/ BodyPropagate /\ UNCHANGED <<migVars, connVars, qbVars, tbVars, wrapper, upVars>>
    \/ BodyCatch /\ UNCHANGED <<migVars, connVars, qbVars, tbVars, wrapper, upVars>>
    \/ AmbientExec /\ UNCHANGED <<migVars, connVars, qbVars, tbVars, wrapper, upVars>>

\* The calls of NextFault at one time of the clock, a failing COMMIT and close() on
\* the driver, after which BEGIN fails.
NextSettle ==
    \/ (\E async \in BOOLEAN : CallOuter(async)) /\ UNCHANGED <<migVars, connVars, qbVars, tbVars, wrapper, upVars>>
    \/ (\E async \in BOOLEAN : CallNested(async)) /\ UNCHANGED <<migVars, connVars, qbVars, tbVars, wrapper, upVars>>
    \/ BodyExec /\ UNCHANGED <<migVars, connVars, qbVars, tbVars, wrapper, upVars>>
    \/ BodyReturn /\ UNCHANGED <<migVars, connVars, qbVars, tbVars, wrapper, upVars>>
    \/ BodyThrow /\ UNCHANGED <<migVars, connVars, qbVars, tbVars, wrapper, upVars>>
    \/ BodyPropagate /\ UNCHANGED <<migVars, connVars, qbVars, tbVars, wrapper, upVars>>
    \/ BodyCatch /\ UNCHANGED <<migVars, connVars, qbVars, tbVars, wrapper, upVars>>
    \/ BodyExecAborts /\ UNCHANGED <<migVars, connVars, qbVars, tbVars, wrapper, upVars>>
    \/ BodyReturnCommitFails /\ UNCHANGED <<migVars, connVars, qbVars, tbVars, wrapper, upVars>>
    \/ DriverClose /\ UNCHANGED <<migVars, connVars, qbVars, tbVars, wrapper, upVars>>

(***************************************************************************)
(* MigrationsRepository.  A ledger row is [id, name, batch]; applied_at,   *)
(* the time of the insert, is read by nothing.  A name stands for a file   *)
(* name with a timestamp prefix: names compare as the file names sort.     *)
(***************************************************************************)
RECURSIVE SortById(_)
SortById(rows) ==
    IF rows = {} THEN <<>>
    ELSE LET r == CHOOSE x \in rows : \A y \in rows : x.id <= y.id
         IN  <<r>> \o SortById(rows \ {r})

RECURSIVE SortNames(_)
SortNames(S) ==
    IF S = {} THEN <<>>
    ELSE LET n == CHOOSE x \in S : \A y \in S : x <= y
         IN  <<n>> \o SortNames(S \ {n})

Range(q) == {q[i] : i \in 1..Len(q)}

Max(S) == CHOOSE x \in S : \A y \in S : y <= x

\* CREATE TABLE IF NOT EXISTS migrations
EnsureTable(d) == SqlWrite(d, [d.content EXCEPT !.table = TRUE])

\* INSERT INTO migrations (name, batch, applied_at): the id is AUTOINCREMENT
LogMigration(d, name, batch) ==
    SqlWrite(d, [d.content EXCEPT
                    !.ledger = @ \cup {[id |-> d.content.ledgerSeq + 1,
                                        name |-> name, batch |-> batch]},
                    !.ledgerSeq = @ + 1])

\* A slip: ORDER BY name.
M_ListApplied_ByName(d) ==
    LET RECURSIVE ByName(_)
        ByName(rows) ==
            IF rows = {} THEN <<>>
            ELSE LET r == CHOOSE x \in rows :
                              \A y \in rows : x.name < y.name \/ (x.name = y.name /\ x.id <= y.id)
                 IN  <<r>> \o ByName(rows \ {r})
    IN  ByName(d.content.ledger)

\* SELECT ... FROM migrations ORDER BY id
ListApplied(d) == SortById(d.content.ledger)

\* A slip: the highest batch number is returned as it is.
M_GetNextBatchNumber_NoIncrement(d) ==
    IF d.content.ledger = {} THEN 0
    ELSE Max({r.batch : r \in d.content.ledger})

\* SELECT COALESCE(MAX(batch), 0) ... + 1
GetNextBatchNumber(d) ==
    IF d.content.ledger = {} THEN 1
    ELSE Max({r.batch : r \in d.content.ledger}) + 1

\* DELETE FROM migrations WHERE batch = ?
DeleteBatch(d, batch) ==
    SqlWrite(d, [d.content EXCEPT !.ledger = {r \in @ : r.batch # batch}])

(***************************************************************************)
(* Migrator.                                                               *)
(***************************************************************************)
\* A slip: the names are returned in another order than sorted.
M_DiscoverMigrations_Unsorted(fs) ==
    [i \in 1..Cardinality(fs) |-> SortNames(fs)[Cardinality(fs) + 1 - i]]

\* discoverMigrations: the names of the files, sorted.
DiscoverMigrations(fs) == SortNames(fs)

\* A slip: the applied names are not consulted and every discovered name is pending.
M_Status_NothingRan(d, fs) == [ran |-> <<>>, pending |-> DiscoverMigrations(fs)]

\* status(): the discovered names with and without a ledger row, in discovery order.
Status(d, fs) ==
    LET appliedNames == {r.name : r \in Range(ListApplied(d))}
        isRan(n) == n \in appliedNames
        isPending(n) == n \notin appliedNames
    IN  [ran |-> SelectSeq(DiscoverMigrations(fs), isRan),
         pending |-> SelectSeq(DiscoverMigrations(fs), isPending)]

\* The keys of the Map that groups the applied rows by batch, sorted (a, b) => b - a.
RECURSIVE SortDesc(_)
SortDesc(S) ==
    IF S = {} THEN <<>>
    ELSE <<Max(S)>> \o SortDesc(S \ {Max(S)})

BatchNumbers(applied) == SortDesc({r.batch : r \in Range(applied)})

\* A slip: only the highest batch is selected, whatever steps says.
M_SliceTo_One(q, end) == SubSeq(q, 1, IF Len(q) = 0 \/ end = 0 THEN 0 ELSE 1)

\* Array.prototype.slice(0, end): a negative end counts from the end of the array.
SliceTo(q, end) ==
    LET e == IF end < 0 THEN (IF Len(q) + end < 0 THEN 0 ELSE Len(q) + end)
             ELSE (IF end > Len(q) THEN Len(q) ELSE end)
    IN  SubSeq(q, 1, e)

\* A slip: the rows of a batch are not reversed.
M_Reverse_Forgotten(q) == q

\* [...migrations].reverse()
Reverse(q) == [i \in 1..Len(q) |-> q[Len(q) + 1 - i]]

\* batches.get(b): the applied rows of batch b, in the order of listApplied().
BatchRows(applied, b) ==
    LET inBatch(r) == r.batch = b
    IN  SelectSeq(applied, inBatch)

UnitError(what, name) == [err |-> what, at |-> name]
NothingToRollback == [err |-> "No migrations to rollback", at |-> 0]

\* op is the call that is running, last the latest call; todo and batches are what
\* is left of the loops; batch is the batch number of up(); given and steps are
\* the option of down().
\* ran and pending are what the latest status() returned.
Idle ==
    [op |-> "idle", last |-> "none", todo |-> <<>>, batches |-> <<>>, batch |-> 0,
     given |-> FALSE, steps |-> 0, ran |-> <<>>, pending |-> <<>>]

Ended(m) == [m EXCEPT !.op = "idle", !.todo = <<>>, !.batches = <<>>]

NoOutcome == [status |-> "none", error |-> NoError]
Resolved == [status |-> "resolved", error |-> NoError]
RejectedWith(e) == [status |-> "rejected", error |-> e]

\* A slip: down() with nothing to roll back returns, as up() with nothing pending.
M_DownRefused_NoOp == Resolved

\* down() with no applied row, or with no batch selected: throw new Error("No
\* migrations to rollback") in an async function.
DownRefused == RejectedWith(NothingToRollback)

txVars == <<stack, calls, raised, clock, globalSavepointCounter>>

\* A file is added to the migrations directory.
AddFile(n) ==
    /\ mig.op = "idle"
    /\ n \notin files
    /\ files' = files \cup {n}
    /\ UNCHANGED <<db, log, mig, outcome, pre, txVars, connVars, qbVars, tbVars, wrapper, upVars>>

\* up() as far as the invocation of the transaction body.
UpStart ==
    /\ mig.op = "idle"
    /\ LET d1 == EnsureTable(db)
           status == Status(EnsureTable(d1), files)
           batch == GetNextBatchNumber(d1)
           b == SqlBegin(d1)
       IN  /\ d1.content.ledgerSeq + Len(status.pending) <= MaxLedgerId
           /\ pre' = Before(db, files)
           /\ IF status.pending = <<>>
              THEN /\ db' = d1
                   /\ mig' = [Idle EXCEPT !.last = "up"]
                   /\ log' = <<>>
                   /\ outcome' = Resolved
              ELSE IF b.ok
              THEN /\ db' = b.db
                   /\ mig' = [Idle EXCEPT !.op = "up", !.last = "up",
                                          !.todo = status.pending, !.batch = batch]
                   /\ log' = <<Ev("BEGIN", 0, TRUE)>>
                   /\ outcome' = NoOutcome
              ELSE /\ db' = b.db
                   /\ mig' = [Idle EXCEPT !.last = "up"]
                   /\ log' = <<Ev("BEGIN", 0, FALSE)>>
                   /\ outcome' = RejectedWith(EngineError("BEGIN"))
    /\ UNCHANGED <<files, txVars, connVars, qbVars, tbVars, wrapper, upVars>>

\* The transaction of up() or down() ends with the failure e of its body.
MigFail(d, before, e) ==
    LET s == OuterFailure(d, 0, e)
    IN  /\ db' = s.db
        /\ mig' = Ended(mig)
        /\ log' = log \o before \o s.evs
        /\ outcome' = RejectedWith(s.error)

\* The transaction of up() or down() ends with the success of its body.
MigSucceed ==
    LET s == OuterSuccess(db, 0, BodyValue(0))
    IN  /\ db' = s.db
        /\ mig' = Ended(mig)
        /\ log' = log \o s.evs
        /\ outcome' = IF s.promise = "resolved" THEN Resolved ELSE RejectedWith(s.error)

\* The change of a unit's up operation, made through the ambient cached driver,
\* which is the connection of the transaction.
ApplyUp(d, name) == SqlWrite(d, [d.content EXCEPT !.schema = @ \cup {name}])

ApplyDown(d, name) == SqlWrite(d, [d.content EXCEPT !.schema = @ \ {name}])

\* A slip: the batch number is read again for every unit.
M_LogBatch_PerUnit(d, batch) == GetNextBatchNumber(d)

\* The batch number of the row logged for a unit: the one read before the loop.
LogBatch(d, batch) == batch

\* One turn of the loop of up(): load the unit, run its up operation, log it.
\* The unit fails to load, or its up operation fails before or after its change.
UpUnit ==
    /\ mig.op = "up"
    /\ mig.todo # <<>>
    /\ LET name == Head(mig.todo)
       IN  \/ MigFail(db, <<Ev("load", name, FALSE)>>, UnitError("load", name))
           \/ \E changed \in BOOLEAN :
                  MigFail(IF changed THEN ApplyUp(db, name) ELSE db,
                          <<Ev("load", name, TRUE), Ev("up", name, FALSE)>>,
                          UnitError("up", name))
           \/ /\ db' = LogMigration(EnsureTable(ApplyUp(db, name)), name,
                                     LogBatch(ApplyUp(db, name), mig.batch))
              /\ mig' = [mig EXCEPT !.todo = Tail(@)]
              /\ log' = log \o <<Ev("load", name, TRUE), Ev("up", name, TRUE),
                                 Ev("log", name, TRUE)>>
              /\ outcome' = outcome
    /\ UNCHANGED <<files, pre, txVars, connVars, qbVars, tbVars, wrapper, upVars>>

\* The body of up() has run every pending unit.
UpEnd ==
    /\ mig.op = "up"
    /\ mig.todo = <<>>
    /\ MigSucceed
    /\ UNCHANGED <<files, pre, txVars, connVars, qbVars, tbVars, wrapper, upVars>>

\* down(options) as far as the invocation of the transaction body; steps is
\* options.steps when the option is given.
DownStart(given, steps) ==
    /\ mig.op = "idle"
    /\ LET d1 == EnsureTable(db)
           k == IF given THEN steps ELSE 1
           applied == ListApplied(d1)
           batchesToRollback == SliceTo(BatchNumbers(applied), k)
           b == SqlBegin(d1)
       IN  /\ pre' = Before(db, files)
           /\ IF applied = <<>> \/ batchesToRollback = <<>>
              THEN /\ db' = d1
                   /\ mig' = [Idle EXCEPT !.last = "down", !.given = given,
                                          !.steps = steps]
                   /\ log' = <<>>
                   /\ outcome' = DownRefused
              ELSE IF b.ok
              THEN /\ db' = b.db
                   /\ mig' = [Idle EXCEPT
                                !.op = "down", !.last = "down",
                                !.given = given, !.steps = steps,
                                !.batches = [i \in 1..Len(batchesToRollback) |->
                                                BatchRows(applied, batchesToRollback[i])],
                                !.todo = Reverse(BatchRows(applied, batchesToRollback[1]))]
                   /\ log' = <<Ev("BEGIN", 0, TRUE)>>
                   /\ outcome' = NoOutcome
              ELSE /\ db' = b.db
                   /\ mig' = [Idle EXCEPT !.last = "down", !.given = given,
                                          !.steps = steps]
                   /\ log' = <<Ev("BEGIN", 0, FALSE)>>
                   /\ outcome' = RejectedWith(EngineError("BEGIN"))
    /\ UNCHANGED <<files, txVars, connVars, qbVars, tbVars, wrapper, upVars>>

\* One turn of the inner loop of down(): load the unit and run its down
\* operation; after the last unit of the batch, delete the rows of the batch and
\* turn to the next batch.
DownUnit ==
    /\ mig.op = "down"
    /\ mig.todo # <<>>
    /\ LET row == Head(mig.todo)
           name == row.name
           ran == <<Ev("load", name, TRUE), Ev("down", name, TRUE)>>
           d1 == ApplyDown(db, name)
           rest == Tail(mig.batches)
       IN  \/ MigFail(db, <<Ev("load", name, FALSE)>>, UnitError("load", name))
           \/ \E changed \in BOOLEAN :
                  MigFail(IF changed THEN d1 ELSE db,
                          <<Ev("load", name, TRUE), Ev("down", name, FALSE)>>,
                          UnitError("down", name))
           \/ /\ IF Tail(mig.todo) # <<>>
                 THEN /\ db' = d1
                      /\ mig' = [mig EXCEPT !.todo = Tail(@)]
                      /\ log' = log \o ran
                 ELSE /\ db' = DeleteBatch(EnsureTable(d1), row.batch)
                      /\ mig' = [mig EXCEPT
                                   !.batches = rest,
                                   !.todo = IF rest = <<>> THEN <<>>
                                            ELSE Reverse(Head(rest))]
                      /\ log' = log \o ran \o <<Ev("deleteBatch", row.batch, TRUE)>>
              /\ outcome' = outcome
    /\ UNCHANGED <<files, pre, txVars, connVars, qbVars, tbVars, wrapper, upVars>>

\* The body of down() has rolled back every selected batch.
DownEnd ==
    /\ mig.op = "down"
    /\ mig.todo = <<>>
    /\ MigSucceed
    /\ UNCHANGED <<files, pre, txVars, connVars, qbVars, tbVars, wrapper, upVars>>

MigIdle ==
    /\ files = {}
    /\ mig = Idle
    /\ outcome = NoOutcome
    /\ pre = Before(NewDatabase, {})

StepsArgs == (0 - 1)..MaxStepsArg

\* status(): the lists are the result of the call.
StatusCall ==
    /\ mig.op = "idle"
    /\ LET d1 == EnsureTable(db)
           status == Status(d1, files)
       IN  /\ db' = d1
           /\ mig' = [Idle EXCEPT !.last = "status", !.ran = status.ran,
                                  !.pending = status.pending]
    /\ pre' = Before(db, files)
    /\ log' = <<>>
    /\ outcome' = Resolved
    /\ UNCHANGED <<files, txVars, connVars, qbVars, tbVars, wrapper, upVars>>

\* MigrationsRepository.log(name, batch), called by the application, on a ledger
\* table that exists.
RepoLog(name, batch) ==
    /\ mig.op = "idle"
    /\ db.content.table
    /\ db.content.ledgerSeq < MaxDirect
    /\ db' = LogMigration(db, name, batch)
    /\ mig' = [Idle EXCEPT !.last = "log"]
    /\ pre' = Before(db, files)
    /\ log' = <<>>
    /\ outcome' = Resolved
    /\ UNCHANGED <<files, txVars, connVars, qbVars, tbVars, wrapper, upVars>>

NextMig ==
    \/ \E n \in 1..MaxNames : AddFile(n)
    \/ StatusCall
    \/ UpStart
    \/ UpUnit
    \/ UpEnd
    \/ \E steps \in StepsArgs : DownStart(TRUE, steps)
    \/ DownStart(FALSE, 0)
    \/ DownUnit
    \/ DownEnd

NextLedger ==
    \/ NextMig
    \/ \E name \in 1..MaxNames, batch \in 1..MaxBatchArg : RepoLog(name, batch)

(***************************************************************************)
(* Overlapping executions of Migrator.up() on one connection.  An async    *)
(* function runs until its next await; what follows the await is a promise *)
(* job.  The job of a promise that is already settled, or is settled by    *)
(* the running code, is queued at once; the job of a file system or module *)
(* load is queued later.  The event loop runs the queued jobs oldest       *)
(* first, each to its next await.                                          *)
(***************************************************************************)
\* at is the await the execution stands at; todo is status.pending, then what is
\* left of the loop; result is how the latest call of the caller ended.
NoRun == [at |-> "idle", todo |-> <<>>, batch |-> 0, result |-> "none"]

Waiting(p) == runs[p].at # "idle" /\ p \notin Range(jobs)

\* A caller calls up(): ensureTable(), then status() as far as
\* `await this.discoverMigrations()`, which scans the directory.
UpCall(p) ==
    /\ runs[p].at = "idle"
    /\ db.open
    /\ db.content.ledgerSeq + Cardinality(files) <= MaxLedgerId
    /\ db' = EnsureTable(EnsureTable(db))
    /\ runs' = [runs EXCEPT ![p] = [NoRun EXCEPT !.at = "discover"]]
    /\ UNCHANGED <<jobs, files>>

\* The directory scan, the import() of a unit or the asynchronous work of a
\* unit's up operation ends: the job that follows the await is queued.
Completes(p) ==
    /\ Waiting(p)
    /\ jobs' = Append(jobs, p)
    /\ UNCHANGED <<db, runs, files>>

\* The rest of status(): listApplied() and the two lists; its promise resolves,
\* which queues the job after `await this.status()`.
StatusRest(p) ==
    /\ runs' = [runs EXCEPT ![p].at = "status", ![p].todo = Status(db, files).pending]
    /\ jobs' = Append(Tail(jobs), p)
    /\ UNCHANGED <<db, files>>

\* A slip: a transaction that is already open is joined.
M_UpRest_Joins(p) ==
    LET b == SqlBegin(db)
    IN  /\ jobs' = Tail(jobs)
        /\ IF runs[p].todo = <<>>
           THEN /\ runs' = [runs EXCEPT ![p] = [NoRun EXCEPT !.result = "resolved"]]
                /\ db' = db
           ELSE /\ runs' = [runs EXCEPT ![p].at = "load", ![p].batch = GetNextBatchNumber(db)]
                /\ db' = b.db
        /\ UNCHANGED files

\* up() after `await this.status()`: nothing pending returns; else the batch
\* number is read and transaction() issues BEGIN, whose failure rejects, and calls
\* the body, which runs as far as `await this.loadMigration(name)`.
UpRest(p) ==
    LET b == SqlBegin(db)
    IN  /\ jobs' = Tail(jobs)
        /\ IF runs[p].todo = <<>>
           THEN /\ runs' = [runs EXCEPT ![p] = [NoRun EXCEPT !.result = "resolved"]]
                /\ db' = db
           ELSE IF b.ok
           THEN /\ runs' = [runs EXCEPT ![p].at = "load", ![p].batch = GetNextBatchNumber(db)]
                /\ db' = b.db
           ELSE /\ runs' = [runs EXCEPT ![p] = [NoRun EXCEPT !.result = "BEGIN failed"]]
                /\ db' = b.db
        /\ UNCHANGED files

\* The body after `await this.loadMigration(name)`: the unit failed to load, or its
\* up operation is called, makes its change through the ambient driver and throws,
\* or returns or returns a promise, settled or not: `await module.up()`.
UnitLoaded(p) ==
    LET name == Head(runs[p].todo)
    IN  /\ UNCHANGED files
        /\ \/ /\ runs' = [runs EXCEPT ![p].at = "failed"]
              /\ jobs' = Append(Tail(jobs), p)
              /\ \/ db' = db
                 \/ db' = ApplyUp(db, name)
           \/ /\ runs' = [runs EXCEPT ![p].at = "up"]
              /\ db' = ApplyUp(db, name)
              /\ \/ jobs' = Append(Tail(jobs), p)
                 \/ jobs' = Tail(jobs)

\* The body after `await module.up()`: the row is logged; then the next unit is
\* loaded, or the body returns and its promise resolves, which queues the job
\* that issues COMMIT.
UnitRan(p) ==
    LET name == Head(runs[p].todo)
        rest == Tail(runs[p].todo)
    IN  /\ db' = LogMigration(EnsureTable(db), name, LogBatch(db, runs[p].batch))
        /\ runs' = [runs EXCEPT ![p].todo = rest,
                                ![p].at = IF rest = <<>> THEN "commit" ELSE "load"]
        /\ jobs' = IF rest = <<>> THEN Append(Tail(jobs), p) ELSE Tail(jobs)
        /\ UNCHANGED files

\* `.then((value) => { this.db.exec("COMMIT"); resolve(value); })`
UpCommits(p) ==
    LET s == OuterSuccess(db, 0, BodyValue(0))
    IN  /\ db' = s.db
        /\ runs' = [runs EXCEPT ![p] = [NoRun EXCEPT !.result = s.promise]]
        /\ jobs' = Tail(jobs)
        /\ UNCHANGED files

\* The promise of the body rejected: `.then(...)` has no handler for it and passes
\* the rejection on to the promise `.catch(...)` was called on.
PassesOn(p) ==
    /\ runs' = [runs EXCEPT ![p].at = "catch"]
    /\ jobs' = Append(Tail(jobs), p)
    /\ UNCHANGED <<db, files>>

\* `.catch((error) => { ... this.db.exec("ROLLBACK") ... reject(error); })`
UpRollsBack(p) ==
    LET s == OuterFailure(db, 0, UnitError("up", Head(runs[p].todo)))
    IN  /\ db' = s.db
        /\ runs' = [runs EXCEPT ![p] = [NoRun EXCEPT !.result = s.promise]]
        /\ jobs' = Tail(jobs)
        /\ UNCHANGED files

\* The event loop runs the oldest queued job.
RunJob ==
    /\ jobs # <<>>
    /\ LET p == Head(jobs)
           at == runs[p].at
       IN  IF at = "discover" THEN StatusRest(p)
           ELSE IF at = "status" THEN UpRest(p)
           ELSE IF at = "load" THEN UnitLoaded(p)
           ELSE IF at = "up" THEN UnitRan(p)
           ELSE IF at = "commit" THEN UpCommits(p)
           ELSE IF at = "failed" THEN PassesOn(p)
           ELSE UpRollsBack(p)

\* down() while no other call runs: the units of the highest batch are undone and
\* the rows of the batch deleted, in one transaction.
DownAlone ==
    /\ \A p \in 1..MaxUps : runs[p].at = "idle"
    /\ db.open
    /\ db.content.ledger # {}
    /\ LET batch == Head(BatchNumbers(ListApplied(db)))
           names == {r.name : r \in {x \in db.content.ledger : x.batch = batch}}
           d1 == [db EXCEPT !.content.schema = @ \ names]
       IN  db' = SqlCommit(SqlBegin(DeleteBatch(EnsureTable(
                     [d1 EXCEPT !.committed = d1.content]), batch)).db).db
    /\ UNCHANGED <<runs, jobs, files>>

\* A file appears in the migrations directory while no call runs.
NewFile(n) ==
    /\ n \notin files
    /\ \A p \in 1..MaxUps : runs[p].at = "idle"
    /\ files' = files \cup {n}
    /\ UNCHANGED <<db, runs, jobs>>

UpsIdle ==
    /\ runs = [p \in 1..MaxUps |-> NoRun]
    /\ jobs = <<>>

upRest == <<stack, calls, log, clock, raised, globalSavepointCounter, mig, outcome, pre,
            connVars, qbVars, tbVars, wrapper>>

NextUps ==
    \/ \E p \in 1..MaxUps : UpCall(p) /\ UNCHANGED upRest
    \/ \E p \in 1..MaxUps : Completes(p) /\ UNCHANGED upRest
    \/ RunJob /\ UNCHANGED upRest
    \/ DownAlone /\ UNCHANGED upRest
    \/ \E n \in 1..MaxNames : NewFile(n) /\ UNCHANGED upRest

(***************************************************************************)
(* The connection cache.  A DatabaseConfig is its type and the sections    *)
(* of its type; a driver instance is the configuration it was constructed  *)
(* from and whether it is open.                                            *)
(***************************************************************************)
NoSection == [path |-> "", host |-> "", port |-> 0, user |-> "", password |-> "",
              database |-> ""]

SqliteConfig(path) == [type |-> "sqlite", section |-> [NoSection EXCEPT !.path = path]]

MysqlConfig(host, password) ==
    [type |-> "mysql",
     section |-> [NoSection EXCEPT !.host = host, !.port = 3306, !.user = "app",
                                   !.password = password, !.database = "main"]]

CustomConfig(path) == [type |-> "postgres", section |-> [NoSection EXCEPT !.path = path]]

Configs ==
    {SqliteConfig("a.sqlite"), SqliteConfig("b.sqlite"), SqliteConfig(""),
     MysqlConfig("db1", "old"), MysqlConfig("db1", "new"),
     CustomConfig("a"), CustomConfig("b")}

\* The types a factory is registered for: those without a built-in driver.
Types == {"mysql", "postgres"}

\* The hash is the type and, for sqlite, the path; for mysql, host, port, user and
\* database; for another type, the JSON text of the whole configuration.
hashConfig(config) ==
    IF config.type = "sqlite"
    THEN [type |-> "sqlite", text |-> <<config.section.path>>]
    ELSE IF config.type = "mysql"
    THEN [type |-> "mysql",
          text |-> <<config.section.host, config.section.port, config.section.user,
                     config.section.database>>]
    ELSE [type |-> config.type, text |-> <<"json", config>>]

\* The factories an application registers.
Factories == 1..MaxFactories

\* The constructor of the built-in SqliteDriver, as the maker of an instance.
BuiltIn == 0

\* The messages of the errors createDriver throws: the text and the type it quotes.
NoMessage == [text |-> "", type |-> ""]
SqlitePathRequired ==
    [text |-> "SQLite path is required when using sqlite database type", type |-> ""]
MysqlNotImplemented ==
    [text |-> "MySQL driver is not yet implemented. Only SQLite is supported in MVP.",
     type |-> ""]
NotSupported(type) ==
    [text |-> "Database type is not supported. Register a custom driver using registerDriver() for other types.",
     type |-> type]

\* A slip: createDriver tries the built-in sqlite driver before the registry.
M_createDriver_BuiltInFirst(registry, config) ==
    IF config.type = "sqlite" /\ config.section.path # ""
    THEN [threw |-> FALSE, error |-> NoMessage, by |-> BuiltIn]
    ELSE IF config.type \in DOMAIN registry
    THEN [threw |-> FALSE, error |-> NoMessage, by |-> registry[config.type]]
    ELSE IF config.type = "sqlite"
    THEN [threw |-> TRUE, error |-> SqlitePathRequired, by |-> BuiltIn]
    ELSE IF config.type = "mysql"
    THEN [threw |-> TRUE, error |-> MysqlNotImplemented, by |-> BuiltIn]
    ELSE [threw |-> TRUE, error |-> NotSupported(config.type), by |-> BuiltIn]

\* createDriver: a registered factory first, then the built-in sqlite driver, which
\* needs a path; anything else throws.  The result names who constructs the instance.
createDriver(registry, config) ==
    IF config.type \in DOMAIN registry
    THEN [threw |-> FALSE, error |-> NoMessage, by |-> registry[config.type]]
    ELSE IF config.type = "sqlite"
    THEN IF config.section.path = ""
         THEN [threw |-> TRUE, error |-> SqlitePathRequired, by |-> BuiltIn]
         ELSE [threw |-> FALSE, error |-> NoMessage, by |-> BuiltIn]
    ELSE IF config.type = "mysql"
    THEN [threw |-> TRUE, error |-> MysqlNotImplemented, by |-> BuiltIn]
    ELSE [threw |-> TRUE, error |-> NotSupported(config.type), by |-> BuiltIn]

CanCreate(config) == ~createDriver(driverRegistry, config).threw

NewDriver(config) ==
    [config |-> config, open |-> TRUE, by |-> createDriver(driverRegistry, config).by]

Did(op) == [op |-> op, threw |-> FALSE, returned |-> 0, cachedBefore |-> cachedDriver,
            made |-> <<>>, closed |-> <<>>, error |-> NoMessage, config |-> <<>>,
            registered |-> <<>>]

setOrmConfig(config) ==
    /\ globalOrmConfig' = <<[database |-> config]>>
    /\ ret' = Did("setOrmConfig")
    /\ UNCHANGED <<driverRegistry, cachedDriver, cachedConfigHash, drivers>>

clearOrmConfig ==
    /\ globalOrmConfig # <<>>
    /\ globalOrmConfig' = <<>>
    /\ ret' = Did("clearOrmConfig")
    /\ UNCHANGED <<driverRegistry, cachedDriver, cachedConfigHash, drivers>>

\* registerDriver(type, factory): Map.set, the latest factory of a type replaces
\* the earlier one.
registerDriver(type, factory) ==
    /\ driverRegistry' = [t \in DOMAIN driverRegistry \cup {type} |->
                              IF t = type THEN factory ELSE driverRegistry[t]]
    /\ ret' = [Did("registerDriver") EXCEPT !.registered = <<type, factory>>]
    /\ UNCHANGED <<globalOrmConfig, cachedDriver, cachedConfigHash, drivers>>

clearDriverRegistry ==
    /\ DOMAIN driverRegistry # {}
    /\ driverRegistry' = [t \in {} |-> BuiltIn]
    /\ ret' = Did("clearDriverRegistry")
    /\ UNCHANGED <<globalOrmConfig, cachedDriver, cachedConfigHash, drivers>>

\* closeDriver(): nothing happens when nothing is cached.
closeDriver ==
    /\ IF cachedDriver # 0
       THEN /\ drivers' = [drivers EXCEPT ![cachedDriver].open = FALSE]
            /\ cachedDriver' = 0
            /\ cachedConfigHash' = <<>>
            /\ ret' = [Did("closeDriver") EXCEPT !.closed = <<cachedDriver>>]
       ELSE /\ ret' = Did("closeDriver")
            /\ UNCHANGED <<drivers, cachedDriver, cachedConfigHash>>
    /\ UNCHANGED <<globalOrmConfig, driverRegistry>>

\* A slip: resetDriver() closes the instance as closeDriver() does.
M_resetDriver_Closes ==
    /\ drivers' = IF cachedDriver # 0
                  THEN [drivers EXCEPT ![cachedDriver].open = FALSE]
                  ELSE drivers
    /\ cachedDriver' = 0
    /\ cachedConfigHash' = <<>>
    /\ ret' = Did("resetDriver")
    /\ UNCHANGED <<globalOrmConfig, driverRegistry>>

\* resetDriver(): the two assignments, whatever is cached.
resetDriver ==
    /\ cachedDriver' = 0
    /\ cachedConfigHash' = <<>>
    /\ ret' = Did("resetDriver")
    /\ UNCHANGED <<globalOrmConfig, driverRegistry, drivers>>

\* getDriver() without a configuration: getOrmConfig throws.
getDriverUnconfigured ==
    /\ globalOrmConfig = <<>>
    /\ ret' = [Did("getDriver") EXCEPT !.threw = TRUE]
    /\ UNCHANGED <<globalOrmConfig, driverRegistry, cachedDriver, cachedConfigHash, drivers>>

\* getDriver() with a configuration.
getDriver ==
    /\ globalOrmConfig # <<>>
    /\ LET config == globalOrmConfig[1].database
           configHash == hashConfig(config)
           new == Len(drivers) + 1
       IN  IF cachedDriver # 0 /\ cachedConfigHash = <<configHash>>
           THEN /\ ret' = [Did("getDriver") EXCEPT !.returned = cachedDriver]
                /\ UNCHANGED <<cachedDriver, cachedConfigHash, drivers>>
           ELSE LET stale == IF cachedDriver # 0 THEN <<cachedDriver>> ELSE <<>>
                    closed == IF cachedDriver # 0
                              THEN [drivers EXCEPT ![cachedDriver].open = FALSE]
                              ELSE drivers
                IN  IF CanCreate(config)
                    THEN /\ Len(drivers) < MaxDrivers
                         /\ drivers' = Append(closed, NewDriver(config))
                         /\ cachedDriver' = new
                         /\ cachedConfigHash' = <<configHash>>
                         /\ ret' = [Did("getDriver") EXCEPT !.returned = new,
                                                            !.made = <<new>>,
                                                            !.closed = stale]
                    ELSE /\ drivers' = closed
                         /\ cachedDriver' = 0
                         /\ UNCHANGED cachedConfigHash
                         /\ ret' = [Did("getDriver") EXCEPT
                                         !.threw = TRUE, !.closed = stale,
                                         !.error = createDriver(driverRegistry, config).error]
    /\ UNCHANGED <<globalOrmConfig, driverRegistry>>

\* createDriver(config), called by the application: the instance is not cached.
createDriverCall(config) ==
    /\ LET made == createDriver(driverRegistry, config)
           new == Len(drivers) + 1
       IN  IF made.threw
           THEN /\ ret' = [Did("createDriver") EXCEPT !.threw = TRUE, !.error = made.error,
                                                      !.config = <<config>>]
                /\ UNCHANGED drivers
           ELSE /\ Len(drivers) < MaxDrivers
                /\ drivers' = Append(drivers, NewDriver(config))
                /\ ret' = [Did("createDriver") EXCEPT !.returned = new, !.made = <<new>>,
                                                      !.config = <<config>>]
    /\ UNCHANGED <<globalOrmConfig, driverRegistry, cachedDriver, cachedConfigHash>>

ConnIdle ==
    /\ globalOrmConfig = <<>>
    /\ driverRegistry = [t \in {} |-> BuiltIn]
    /\ cachedDriver = 0
    /\ cachedConfigHash = <<>>
    /\ drivers = <<>>
    /\ ret = [op |-> "none", threw |-> FALSE, returned |-> 0, cachedBefore |-> 0,
              made |-> <<>>, closed |-> <<>>, error |-> NoMessage, config |-> <<>>,
            registered |-> <<>>]

restVars == <<db, stack, calls, log, clock, raised, globalSavepointCounter,
              files, mig, outcome, pre, state, answer, builder, executed, wrapper,
              runs, jobs>>

NextConn ==
    \/ (\E config \in Configs : setOrmConfig(config)) /\ UNCHANGED restVars
    \/ clearOrmConfig /\ UNCHANGED restVars
    \/ (\E type \in Types : registerDriver(type, 1)) /\ UNCHANGED restVars
    \/ clearDriverRegistry /\ UNCHANGED restVars
    \/ closeDriver /\ UNCHANGED restVars
    \/ resetDriver /\ UNCHANGED restVars
    \/ getDriverUnconfigured /\ UNCHANGED restVars
    \/ getDriver /\ UNCHANGED restVars

\* The registry and createDriver, called by the application, for every type.
AllTypes == {"sqlite", "mysql", "postgres"}

\* A configuration of each type, and sqlite without a path.
CreateConfigs ==
    {SqliteConfig("a.sqlite"), SqliteConfig(""), MysqlConfig("db1", "old"), CustomConfig("a")}

NextCreate ==
    \/ (\E type \in AllTypes, factory \in Factories : registerDriver(type, factory))
           /\ UNCHANGED restVars
    \/ clearDriverRegistry /\ UNCHANGED restVars
    \/ (\E config \in CreateConfigs : createDriverCall(config)) /\ UNCHANGED restVars

(***************************************************************************)
(* The query builder (QueryBuilderImpl) and the driver's query().  A       *)
(* string of the program is a sequence of pieces of text; a double quote   *)
(* inside a name is a piece of its own.  An optional field is <<>> when    *)
(* undefined and <<v>> when set; selectColumns and excludeColumns are      *)
(* <<>> when undefined, which the code treats as the empty array.          *)
(***************************************************************************)
Id == <<"id">>
Age == <<"age">>
Name == <<"name">>
CountStar == <<"COUNT(*)">>
Users == <<"users">>
Columns == {Id, Age, Name}

\* The rows of table users, in rowid order: the ages descend as the ids ascend.
UsersRows ==
    [i \in 1..MaxTable |->
        [c \in Columns |-> IF c = Id THEN i ELSE IF c = Age THEN MaxTable + 1 - i ELSE 7]]

\* A piece of SQL text written in the template, and a value interpolated into it.
Lit(text) == [kind |-> "text", text |-> <<text>>]
Interp(kind, text) == [kind |-> kind, text |-> text]

\* String(n) of a count, and the number the engine reads from it.
Digits == <<"0", "1", "2", "3", "4", "5", "6">>
NumberText(n) == <<Digits[n + 1]>>
TextNumber(text) == CHOOSE n \in 0..(Len(Digits) - 1) : Digits[n + 1] = text[1]

toUpperCase(direction) == IF direction = "asc" THEN "ASC" ELSE "DESC"

\* columns.join(", ") and whereClauses.join(" AND ").
RECURSIVE Join(_, _)
Join(items, separator) ==
    IF Len(items) = 0 THEN <<>>
    ELSE IF Len(items) = 1 THEN items[1]
    ELSE items[1] \o <<Lit(separator)>> \o Join(Tail(items), separator)

\* new QueryBuilderImpl(table)
NewState(table) ==
    [table |-> table, selectColumns |-> <<>>, excludeColumns |-> <<>>,
     limitCount |-> <<>>, offsetCount |-> <<>>, orderByClause |-> <<>>,
     whereConditions |-> <<>>]

select(s, columns) == [s EXCEPT !.selectColumns = @ \o columns]

exclude(s, columns) == [s EXCEPT !.excludeColumns = @ \o columns]

\* A slip: limit() keeps a limit that is already set.
M_limit_FirstWins(s, count) ==
    IF s.limitCount = <<>> THEN [s EXCEPT !.limitCount = <<count>>] ELSE s

limit(s, count) == [s EXCEPT !.limitCount = <<count>>]

offset(s, count) == [s EXCEPT !.offsetCount = <<count>>]

orderBy(s, column, direction) ==
    [s EXCEPT !.orderByClause = <<[column |-> column, direction |-> direction]>>]

\* A slip: where() with two arguments compares with > instead of =.
M_where_DefaultsToGreater(s, column, operatorOrValue, value) ==
    [s EXCEPT !.whereConditions =
        Append(@, [column |-> column,
                   operator |-> IF value # <<>> THEN operatorOrValue ELSE ">",
                   value |-> IF value # <<>> THEN value[1] ELSE operatorOrValue])]

\* where(column, operatorOrValue, value?): value is <<>> when the call has two
\* arguments.
where(s, column, operatorOrValue, value) ==
    [s EXCEPT !.whereConditions =
        Append(@, [column |-> column,
                   operator |-> IF value # <<>> THEN operatorOrValue ELSE "=",
                   value |-> IF value # <<>> THEN value[1] ELSE operatorOrValue])]

\* A slip: the terms of the WHERE clause hold the values themselves.
M_WhereClauses_InlineValues(s) ==
    [i \in 1..Len(s.whereConditions) |->
        <<Interp("identifier", s.whereConditions[i].column), Lit(" "),
          Interp("operator", <<s.whereConditions[i].operator>>), Lit(" "),
          Interp("value", NumberText(s.whereConditions[i].value))>>]

\* The terms of the WHERE clause and their parameters.
WhereClauses(s) ==
    [i \in 1..Len(s.whereConditions) |->
        <<Interp("identifier", s.whereConditions[i].column), Lit(" "),
          Interp("operator", <<s.whereConditions[i].operator>>), Lit(" ?")>>]

WhereParams(s) == [i \in 1..Len(s.whereConditions) |-> s.whereConditions[i].value]

WhereSql(s) ==
    IF Len(s.whereConditions) > 0
    THEN <<Lit(" WHERE ")>> \o Join(WhereClauses(s), " AND ")
    ELSE <<>>

buildSelectQueryWithoutLimit(s) ==
    IF Len(s.selectColumns) > 0
    THEN <<Lit("SELECT ")>>
         \o Join([i \in 1..Len(s.selectColumns) |->
                     <<Interp("identifier", s.selectColumns[i])>>], ", ")
         \o <<Lit(" FROM "), Interp("identifier", s.table)>>
    ELSE <<Lit("SELECT "), Lit("*"), Lit(" FROM "), Interp("identifier", s.table)>>

\* A slip: an offset without a limit is not written.
M_buildSelectQuery_OffsetNeedsLimit(s) ==
    [sql |-> buildSelectQueryWithoutLimit(s)
             \o WhereSql(s)
             \o (IF s.orderByClause # <<>>
                 THEN <<Lit(" ORDER BY "), Interp("identifier", s.orderByClause[1].column),
                        Lit(" "),
                        Interp("direction", <<toUpperCase(s.orderByClause[1].direction)>>)>>
                 ELSE <<>>)
             \o (IF s.limitCount # <<>> /\ s.offsetCount # <<>>
                 THEN <<Lit(" LIMIT "), Interp("number", NumberText(s.limitCount[1])),
                        Lit(" OFFSET "), Interp("number", NumberText(s.offsetCount[1]))>>
                 ELSE IF s.limitCount # <<>>
                 THEN <<Lit(" LIMIT "), Interp("number", NumberText(s.limitCount[1]))>>
                 ELSE <<>>),
     params |-> WhereParams(s)]

buildSelectQuery(s) ==
    [sql |-> buildSelectQueryWithoutLimit(s)
             \o WhereSql(s)
             \o (IF s.orderByClause # <<>>
                 THEN <<Lit(" ORDER BY "), Interp("identifier", s.orderByClause[1].column),
                        Lit(" "),
                        Interp("direction", <<toUpperCase(s.orderByClause[1].direction)>>)>>
                 ELSE <<>>)
             \o (IF s.limitCount # <<>> /\ s.offsetCount # <<>>
                 THEN <<Lit(" LIMIT "), Interp("number", NumberText(s.limitCount[1])),
                        Lit(" OFFSET "), Interp("number", NumberText(s.offsetCount[1]))>>
                 ELSE IF s.limitCount # <<>>
                 THEN <<Lit(" LIMIT "), Interp("number", NumberText(s.limitCount[1]))>>
                 ELSE IF s.offsetCount # <<>>
                 THEN <<Lit(" LIMIT "), Lit("-1"),
                        Lit(" OFFSET "), Interp("number", NumberText(s.offsetCount[1]))>>
                 ELSE <<>>),
     params |-> WhereParams(s)]

\* A slip: COUNT(*) is taken of the query that all() runs.
M_buildCountQuery_OfSelect(s) ==
    [sql |-> <<Lit("SELECT "), Lit("COUNT(*)")>>
             \o SubSeq(buildSelectQuery(s).sql,
                       CHOOSE i \in 1..Len(buildSelectQuery(s).sql) :
                           buildSelectQuery(s).sql[i] = Lit(" FROM "),
                       Len(buildSelectQuery(s).sql)),
     params |-> WhereParams(s)]

buildCountQuery(s) ==
    [sql |-> <<Lit("SELECT "), Lit("COUNT(*)"), Lit(" FROM "), Interp("identifier", s.table)>>
             \o WhereSql(s),
     params |-> WhereParams(s)]

\* A slip: find() adds its condition to the accumulated ones.
M_findQuery_KeepsFilters(s, id) ==
    [sql |-> buildSelectQueryWithoutLimit(s) \o WhereSql(s)
             \o <<Lit(IF Len(s.whereConditions) > 0 THEN " AND " ELSE " WHERE "),
                   Lit("id"), Lit(" "), Lit("="), Lit(" ?")>>,
     params |-> WhereParams(s) \o <<id>>]

\* The statement of find(id).
findQuery(s, id) ==
    [sql |-> buildSelectQueryWithoutLimit(s)
             \o <<Lit(" WHERE "), Lit("id"), Lit(" "), Lit("="), Lit(" ?")>>,
     params |-> <<id>>]

\* A slip: excluded columns are removed although columns are selected.
M_filterColumns_AlwaysExcludes(s, results) ==
    [i \in 1..Len(results) |->
        [c \in {c \in DOMAIN results[i] :
                   /\ Len(s.selectColumns) > 0 => c \in Range(s.selectColumns)
                   /\ c \notin Range(s.excludeColumns)} |-> results[i][c]]]

filterColumns(s, results) ==
    IF Len(s.selectColumns) > 0
    THEN [i \in 1..Len(results) |->
             [c \in {c \in Range(s.selectColumns) : c \in DOMAIN results[i]} |->
                 results[i][c]]]
    ELSE IF Len(s.excludeColumns) > 0
    THEN [i \in 1..Len(results) |->
             [c \in DOMAIN results[i] \ Range(s.excludeColumns) |-> results[i][c]]]
    ELSE results

(***************************************************************************)
(* SQLite, as far as the statements of the query builder go: it reads the  *)
(* text of the statement, not the builder.                                 *)
(***************************************************************************)
\* Where a piece of text stands in a statement, 0 when it does not.
At(sql, text) ==
    IF \E i \in 1..Len(sql) : sql[i] = Lit(text)
    THEN CHOOSE i \in 1..Len(sql) : sql[i] = Lit(text) /\ \A j \in 1..(i - 1) : sql[j] # Lit(text)
    ELSE 0

\* The column an identifier names: the text between double quotes when it is quoted.
ColumnOf(text) ==
    IF Len(text) >= 2 /\ text[1] = "\"" THEN SubSeq(text, 2, Len(text) - 1) ELSE text

\* The terms of the WHERE clause, each of them four pieces, AND between two of them.
TermsOf(sql) ==
    LET w == At(sql, " WHERE ")
        n == Cardinality({i \in 1..Len(sql) : sql[i] = Lit(" ?")})
    IN  [k \in 1..n |-> [column |-> ColumnOf(sql[w + 5 * k - 4].text),
                         operator |-> sql[w + 5 * k - 2].text[1]]]

Holds(row, term, value) ==
    IF term.operator = "=" THEN row[term.column] = value
    ELSE IF term.operator = ">" THEN row[term.column] > value
    ELSE row[term.column] < value

Matching(rows, sql, params) ==
    LET terms == TermsOf(sql)
        Test(row) == \A k \in 1..Len(terms) : Holds(row, terms[k], params[k])
    IN  SelectSeq(rows, Test)

\* ORDER BY of rows: the lowest (ASC) or highest (DESC) first, the earlier row first
\* among equals.
RECURSIVE SortRows(_, _, _)
SortRows(rows, column, direction) ==
    IF Len(rows) = 0 THEN <<>>
    ELSE LET Before2(a, b) == IF direction = "ASC" THEN a[column] < b[column]
                              ELSE a[column] > b[column]
             i == CHOOSE i \in 1..Len(rows) :
                      /\ \A j \in 1..Len(rows) : ~Before2(rows[j], rows[i])
                      /\ \A j \in 1..(i - 1) : Before2(rows[i], rows[j])
         IN  <<rows[i]>> \o SortRows(SubSeq(rows, 1, i - 1) \o SubSeq(rows, i + 1, Len(rows)),
                                     column, direction)

Ordered(rows, sql) ==
    LET o == At(sql, " ORDER BY ")
    IN  IF o = 0 THEN rows ELSE SortRows(rows, ColumnOf(sql[o + 1].text), sql[o + 3].text[1])

\* LIMIT n OFFSET k: a negative n is no limit.
Window(rows, sql) ==
    LET l == At(sql, " LIMIT ")
        o == At(sql, " OFFSET ")
        k == IF o = 0 THEN 0 ELSE TextNumber(sql[o + 1].text)
        last == IF l = 0 \/ sql[l + 1] = Lit("-1") THEN Len(rows)
                ELSE IF k + TextNumber(sql[l + 1].text) < Len(rows)
                THEN k + TextNumber(sql[l + 1].text) ELSE Len(rows)
    IN  SubSeq(rows, k + 1, last)

\* The result columns: every column for *, else the columns listed before FROM.
Projected(rows, sql) ==
    LET f == At(sql, " FROM ")
        listed == {ColumnOf(sql[i].text) : i \in {i \in 2..(f - 1) : sql[i] # Lit(", ")}}
    IN  IF sql[2] = Lit("*") THEN rows
        ELSE [i \in 1..Len(rows) |-> [c \in listed |-> rows[i][c]]]

\* The rows a statement returns from table users.
Run(sql, params) ==
    IF sql[2] = Lit("COUNT(*)")
    THEN Window(<<[c \in {CountStar} |-> Len(Matching(UsersRows, sql, params))]>>, sql)
    ELSE Projected(Window(Ordered(Matching(UsersRows, sql, params), sql), sql), sql)

\* QueryResult.all() and QueryResult.get() of driver.query(sql, ...params).
QueryAll(sql, params) == Run(sql, params)
QueryGet(sql, params) ==
    IF Len(Run(sql, params)) = 0 THEN <<>> ELSE <<Run(sql, params)[1]>>

(***************************************************************************)
(* The calls on one query builder of table users.  getDriver() returns the *)
(* driver of a database that holds the table; a statement fails when the   *)
(* engine refuses it (the database is locked).                             *)
(***************************************************************************)
Asked(op) == [op |-> op, threw |-> FALSE, returned |-> "this", was |-> <<>>,
              sql |-> <<>>, params |-> <<>>, rows |-> <<>>, value |-> 0, args |-> <<>>]

\* The builder calls made so far that still show in the state.
Size(s) ==
    Len(s.selectColumns) + Len(s.excludeColumns) + Len(s.whereConditions)
    + Len(s.limitCount) + Len(s.offsetCount) + Len(s.orderByClause)

\* A builder call: the state changes, the call returns this.  was is the field the
\* call writes, as the call found it.
Chained(op, args, was, s) ==
    /\ Size(s) <= MaxChain
    /\ state' = s
    /\ answer' = [Asked(op) EXCEPT !.args = args, !.was = was]
    /\ UNCHANGED otherVars

Select(columns) ==
    Chained("select", columns, state.selectColumns, select(state, columns))

Exclude(columns) ==
    Chained("exclude", columns, state.excludeColumns, exclude(state, columns))

Limit(count) == Chained("limit", <<count>>, state.limitCount, limit(state, count))

Offset(count) == Chained("offset", <<count>>, state.offsetCount, offset(state, count))

OrderBy(column, direction) ==
    Chained("orderBy", <<column, <<direction>>>>, state.orderByClause,
            orderBy(state, column, direction))

Where(column, operatorOrValue, value) ==
    Chained("where", <<column, <<operatorOrValue>>, value>>, state.whereConditions,
            where(state, column, operatorOrValue, value))

All(ok) ==
    /\ LET q == buildSelectQuery(state)
       IN  answer' = IF ok
                     THEN [Asked("all") EXCEPT
                              !.sql = q.sql, !.params = q.params,
                              !.rows = filterColumns(state, QueryAll(q.sql, q.params))]
                     ELSE [Asked("all") EXCEPT !.threw = TRUE, !.sql = q.sql,
                                               !.params = q.params]
    /\ UNCHANGED <<state, otherVars>>

\* first(): the limit is set to 1, the statement runs, the limit is restored; a
\* statement that throws leaves the method before the limit is restored.
First(ok) ==
    LET originalLimit == state.limitCount
        limited == [state EXCEPT !.limitCount = <<1>>]
        q == buildSelectQuery(limited)
        result == QueryGet(q.sql, q.params)
    IN  /\ IF ok
           THEN /\ state' = [limited EXCEPT !.limitCount = originalLimit]
                /\ answer' = [Asked("first") EXCEPT
                                 !.sql = q.sql, !.params = q.params,
                                 !.rows = filterColumns(limited, result)]
           ELSE /\ state' = limited
                /\ answer' = [Asked("first") EXCEPT !.threw = TRUE, !.sql = q.sql,
                                                    !.params = q.params]
        /\ UNCHANGED otherVars

Count(ok) ==
    /\ LET q == buildCountQuery(state)
           result == QueryGet(q.sql, q.params)
       IN  answer' = IF ok
                     THEN [Asked("count") EXCEPT
                              !.sql = q.sql, !.params = q.params,
                              !.value = IF result = <<>> THEN 0 ELSE result[1][CountStar]]
                     ELSE [Asked("count") EXCEPT !.threw = TRUE, !.sql = q.sql,
                                                 !.params = q.params]
    /\ UNCHANGED <<state, otherVars>>

Find(id, ok) ==
    /\ LET q == findQuery(state, id)
           result == QueryGet(q.sql, q.params)
       IN  answer' = IF ok
                     THEN [Asked("find") EXCEPT
                              !.sql = q.sql, !.params = q.params, !.args = <<id>>,
                              !.rows = filterColumns(state, result)]
                     ELSE [Asked("find") EXCEPT !.threw = TRUE, !.sql = q.sql,
                                                !.params = q.params, !.args = <<id>>]
    /\ UNCHANGED <<state, otherVars>>

QueryIdle ==
    /\ state = NewState(Users)
    /\ answer = [op |-> "none", threw |-> FALSE, returned |-> "this", was |-> <<>>,
                 sql |-> <<>>, params |-> <<>>, rows |-> <<>>, value |-> 0, args |-> <<>>]

\* The arguments of the calls.
Operators == {"=", ">"}
Values == 1..MaxValue
FilterColumns == {Id, Age}
ColumnLists == {<<c>> : c \in Columns}

\* The ids find() is called with: of the first row, of the last row, of no row.
FindIds == {1, MaxTable, MaxTable + 1}

\* Every call, on a database whose statements succeed.
NextQuery ==
    \/ \E columns \in ColumnLists : Select(columns)
    \/ \E columns \in ColumnLists : Exclude(columns)
    \/ \E count \in 0..MaxLimit : Limit(count)
    \/ \E count \in 0..MaxOffset : Offset(count)
    \/ \E column \in FilterColumns, direction \in {"asc", "desc"} : OrderBy(column, direction)
    \/ \E column \in FilterColumns, v \in Values : Where(column, v, <<>>)
    \/ \E column \in FilterColumns, operator \in Operators, v \in Values :
           Where(column, operator, <<v>>)
    \/ All(TRUE)
    \/ First(TRUE)
    \/ Count(TRUE)
    \/ \E id \in FindIds : Find(id, TRUE)

\* The calls that filter, order and cut the rows, on a database whose statements
\* may fail.
NextQueryFault ==
    \/ \E count \in 0..MaxLimit : Limit(count)
    \/ \E count \in 0..MaxOffset : Offset(count)
    \/ \E column \in FilterColumns, direction \in {"asc", "desc"} : OrderBy(column, direction)
    \/ \E column \in FilterColumns, v \in Values : Where(column, v, <<>>)
    \/ \E ok \in BOOLEAN : All(ok)
    \/ \E ok \in BOOLEAN : First(ok)
    \/ \E ok \in BOOLEAN : Count(ok)
    \/ \E id \in FindIds, ok \in BOOLEAN : Find(id, ok)

(***************************************************************************)
(* The schema operations that take names only (Schema.dropTable,           *)
(* Schema.renameTable) and the quoting of a name.                          *)
(***************************************************************************)
\* name.replace(/"/g, '""')
RECURSIVE Doubled(_)
Doubled(name) ==
    IF Len(name) = 0 THEN <<>>
    ELSE (IF name[1] = "\"" THEN <<"\"", "\"">> ELSE <<name[1]>>) \o Doubled(Tail(name))

\* `"${name.replace(/"/g, '""')}"`
quote(name) == <<"\"">> \o Doubled(name) \o <<"\"">>

\* The names of tables: plain, a reserved word, with a double quote inside.
TableNames == {Users, <<"order">>, <<"we", "\"", "ird">>, <<"\"", "\"">>}

dropTable(name) ==
    /\ answer' = [Asked("dropTable") EXCEPT
                     !.args = <<name>>,
                     !.sql = <<Lit("DROP TABLE IF EXISTS "), Interp("identifier", quote(name))>>]
    /\ UNCHANGED <<state, otherVars>>

renameTable(oldName, newName) ==
    /\ answer' = [Asked("renameTable") EXCEPT
                     !.args = <<oldName, newName>>,
                     !.sql = <<Lit("ALTER TABLE "), Interp("identifier", quote(oldName)),
                               Lit(" RENAME TO "), Interp("identifier", quote(newName))>>]
    /\ UNCHANGED <<state, otherVars>>

NextSchema ==
    \/ \E name \in TableNames : dropTable(name)
    \/ \E oldName \in TableNames, newName \in TableNames : renameTable(oldName, newName)

(***************************************************************************)
(* The table builder (SqliteTableBuilder) and the Schema operations that   *)
(* run a callback on it (Schema.createTable, Schema.table).  The text of a *)
(* statement is pieces of chunks as above; the words PRIMARY KEY are a     *)
(* chunk of their own wherever they occur, in the template and in a name,  *)
(* so that String.includes("PRIMARY KEY") is a test on chunks.  string(),  *)
(* boolean(), timestamp() and uuid() push the same ColumnDef as text() or  *)
(* integer(); a composite constraint or index is taken on one column.      *)
(***************************************************************************)
PrimaryKey == "PRIMARY KEY"

\* sql.includes(word)
includes(sql, word) ==
    \E i \in 1..Len(sql) : \E j \in 1..Len(sql[i].text) : sql[i].text[j] = word

\* The names given to integer columns: plain, and holding the words PRIMARY KEY.
ColumnNames == {Age, <<PrimaryKey>>}

\* The tables built and altered.
BuiltTables == {Users}

\* The values given to default(): a string with an apostrophe, a number, null.
DefaultValues ==
    {[type |-> "string", text |-> <<"it", "'", "s">>],
     [type |-> "number", text |-> <<"0">>],
     [type |-> "null", text |-> <<"null">>]}

\* new SqliteTableBuilder(tableName, isAlter).  handles are the columns, by index,
\* for which createColumnBuilder() returned a column builder; made tells, by column,
\* the method that pushed it and the latest of the calls nullable() and notNull() on
\* its column builder.
NewBuilder(tableName, isAlter) ==
    [tableName |-> tableName, isAlter |-> isAlter, columns |-> <<>>, indexes |-> <<>>,
     uniqueConstraints |-> <<>>, foreignKeys |-> <<>>, handles |-> {}, made |-> <<>>]

\* A ColumnDef literal: the fields not written are undefined.
ColumnDef(name, type, primary, notNull) ==
    [name |-> name, sql |-> <<Interp("identifier", quote(name))>> \o type,
     unique |-> <<>>, nullable |-> <<>>, notNull |-> notNull, defaultValue |-> <<>>,
     primary |-> primary, foreignKey |-> <<>>]

Building == builder # <<>>

Constraints(b) == Len(b.indexes) + Len(b.uniqueConstraints) + Len(b.foreignKeys)

\* The calls made on the builder and on its column builders that show in its state.
Written(col) ==
    Len(col.unique) + Len(col.nullable) + Len(col.defaultValue) + Len(col.foreignKey)
    + (IF col.primary = <<TRUE>> /\ ~includes(col.sql, " AUTOINCREMENT") THEN 1 ELSE 0)

RECURSIVE Calls(_)
Calls(b) ==
    Constraints(b)
    + (IF Len(b.columns) = 0 THEN 0
       ELSE 1 + Written(b.columns[1]) + Calls([b EXCEPT !.columns = Tail(@), !.indexes = <<>>,
                                                     !.uniqueConstraints = <<>>,
                                                     !.foreignKeys = <<>>]))

\* this.columns.push(col) for each name, with or without createColumnBuilder(col)
Pushed(by, names, type, primary, notNull, handle) ==
    /\ Building
    /\ Calls(builder[1]) < MaxCalls
    /\ Len(builder[1].columns) + Len(names) <= MaxColumns
    /\ builder' = <<[builder[1] EXCEPT
                        !.columns = @ \o [k \in 1..Len(names) |->
                                             ColumnDef(names[k], type, primary, notNull)],
                        !.handles = IF handle THEN @ \cup {Len(builder[1].columns) + 1}
                                    ELSE @,
                        !.made = @ \o [k \in 1..Len(names) |-> [by |-> by, last |-> ""]]]>>
    /\ UNCHANGED <<executed, baseVars, qbVars, wrapper>>

increments(name) ==
    Pushed("increments", <<name>>,
           <<Lit(" INTEGER "), Lit(PrimaryKey), Lit(" AUTOINCREMENT")>>,
           <<TRUE>>, <<TRUE>>, FALSE)

integer(name) == Pushed("integer", <<name>>, <<Lit(" INTEGER")>>, <<>>, <<>>, TRUE)

text(name) == Pushed("text", <<name>>, <<Lit(" TEXT")>>, <<>>, <<>>, TRUE)

foreignId(name) == Pushed("foreignId", <<name>>, <<Lit(" INTEGER")>>, <<>>, <<TRUE>>, TRUE)

timestamps ==
    Pushed("timestamps", <<(<<"createdAt">>), (<<"updatedAt">>)>>, <<Lit(" TEXT")>>,
           <<>>, <<>>, FALSE)

\* A call on the column builder of column i: col is the ColumnDef it leaves.
Modified(i, col, last) ==
    /\ Building
    /\ Calls(builder[1]) < MaxCalls
    /\ i \in builder[1].handles
    /\ builder' = <<[builder[1] EXCEPT !.columns[i] = col, !.made[i].last = last]>>
    /\ UNCHANGED <<executed, baseVars, qbVars, wrapper>>

unique(i) ==
    Modified(i, [builder[1].columns[i] EXCEPT !.unique = <<TRUE>>], builder[1].made[i].last)

nullable(i) ==
    Modified(i, [builder[1].columns[i] EXCEPT !.nullable = <<TRUE>>, !.notNull = <<FALSE>>],
             "nullable")

notNull(i) ==
    Modified(i, [builder[1].columns[i] EXCEPT !.notNull = <<TRUE>>, !.nullable = <<FALSE>>],
             "notNull")

default(i, value) ==
    Modified(i, [builder[1].columns[i] EXCEPT !.defaultValue = <<value>>],
             builder[1].made[i].last)

primary(i) ==
    Modified(i, [builder[1].columns[i] EXCEPT !.primary = <<TRUE>>], builder[1].made[i].last)

\* A call that adds a table-level constraint or an index.
Constrained(b) ==
    /\ Building
    /\ Calls(builder[1]) < MaxCalls
    /\ Constraints(builder[1]) < MaxConstraints
    /\ builder' = <<b>>
    /\ UNCHANGED <<executed, baseVars, qbVars, wrapper>>

references(i, table, column) ==
    /\ Building
    /\ i \in builder[1].handles
    /\ Constrained([builder[1] EXCEPT
                       !.columns[i].foreignKey = <<[table |-> table, column |-> column]>>,
                       !.foreignKeys = Append(@, [column |-> builder[1].columns[i].name,
                                                  table |-> table, refColumn |-> column])])

uniqueConstraint(column) ==
    Building /\ Constrained([builder[1] EXCEPT !.uniqueConstraints = Append(@, <<column>>)])

index(column) ==
    Building /\ Constrained([builder[1] EXCEPT !.indexes = Append(@, [columns |-> <<column>>])])

foreign(column, table, refColumn) ==
    Building /\ Constrained([builder[1] EXCEPT
                                !.foreignKeys = Append(@, [column |-> column, table |-> table,
                                                           refColumn |-> refColumn])])

\* col.defaultValue.replace(/'/g, "''")
RECURSIVE Apostrophes(_)
Apostrophes(string) ==
    IF Len(string) = 0 THEN <<>>
    ELSE (IF string[1] = "'" THEN <<"'", "'">> ELSE <<string[1]>>) \o Apostrophes(Tail(string))

\* The literal written after DEFAULT.
DefaultLiteral(value) ==
    IF value.type = "string" THEN <<"'">> \o Apostrophes(value.text) \o <<"'">>
    ELSE IF value.type = "null" THEN <<"NULL">>
    ELSE value.text

NotNullSuffix == <<Lit(" NOT NULL")>>
DefaultSuffix(col) == <<Lit(" DEFAULT "), Interp("literal", DefaultLiteral(col.defaultValue[1]))>>
UniqueSuffix == <<Lit(" UNIQUE")>>
PrimaryKeySuffix == <<Lit(" "), Lit(PrimaryKey)>>

\* The definition of a column in CREATE TABLE, with UNIQUE written before DEFAULT
\* and PRIMARY KEY written for every primary column.
M_CreateDef_UniqueFirst(col) ==
    col.sql
    \o (IF col.notNull = <<TRUE>> /\ ~includes(col.sql, PrimaryKey) THEN NotNullSuffix ELSE <<>>)
    \o (IF col.unique = <<TRUE>> /\ ~includes(col.sql, PrimaryKey) THEN UniqueSuffix ELSE <<>>)
    \o (IF col.defaultValue # <<>> THEN DefaultSuffix(col) ELSE <<>>)
    \o (IF col.primary = <<TRUE>> THEN PrimaryKeySuffix ELSE <<>>)

\* The definition of a column in CREATE TABLE (the body of the loop of toCreateSql).
CreateDef(col) ==
    col.sql
    \o (IF col.notNull = <<TRUE>> /\ ~includes(col.sql, PrimaryKey) THEN NotNullSuffix ELSE <<>>)
    \o (IF col.defaultValue # <<>> THEN DefaultSuffix(col) ELSE <<>>)
    \o (IF col.unique = <<TRUE>> /\ ~includes(col.sql, PrimaryKey) THEN UniqueSuffix ELSE <<>>)
    \o (IF col.primary = <<TRUE>> /\ ~includes(col.sql, PrimaryKey) THEN PrimaryKeySuffix ELSE <<>>)

toCreateSql(b) ==
    <<Lit("CREATE TABLE "), Interp("identifier", quote(b.tableName)), Lit(" (")>>
    \o Join([i \in 1..Len(b.columns) |-> CreateDef(b.columns[i])]
            \o [i \in 1..Len(b.uniqueConstraints) |->
                   <<Lit("UNIQUE ("), Interp("identifier", quote(b.uniqueConstraints[i][1])),
                     Lit(")")>>]
            \o [i \in 1..Len(b.foreignKeys) |->
                   <<Lit("FOREIGN KEY ("), Interp("identifier", quote(b.foreignKeys[i].column)),
                     Lit(") REFERENCES "), Interp("identifier", quote(b.foreignKeys[i].table)),
                     Lit("("), Interp("identifier", quote(b.foreignKeys[i].refColumn)),
                     Lit(")")>>],
            ", ")
    \o <<Lit(")")>>

toIndexSql(b) ==
    [i \in 1..Len(b.indexes) |->
        <<Lit("CREATE INDEX "),
          Interp("identifier",
                 quote(b.tableName \o <<"_">> \o b.indexes[i].columns[1] \o <<"_index">>)),
          Lit(" ON "), Interp("identifier", quote(b.tableName)),
          Lit(" ("), Interp("identifier", quote(b.indexes[i].columns[1])), Lit(")")>>]

\* The definition of a column in ALTER TABLE ADD COLUMN (the body of the loop of
\* Schema.table).
AlterDef(col) ==
    col.sql
    \o (IF col.notNull = <<TRUE>> THEN NotNullSuffix ELSE <<>>)
    \o (IF col.defaultValue # <<>> THEN DefaultSuffix(col) ELSE <<>>)
    \o (IF col.unique = <<TRUE>> THEN UniqueSuffix ELSE <<>>)

NothingExecuted ==
    [op |-> "none", columns |-> <<>>, name |-> <<>>, statements |-> <<>>, made |-> <<>>]

\* Schema.createTable(name, callback), until the callback is called.
createTable(name) ==
    /\ ~Building
    /\ builder' = <<NewBuilder(name, FALSE)>>
    /\ executed' = NothingExecuted
    /\ UNCHANGED <<baseVars, qbVars, wrapper>>

\* Schema.createTable(name, callback), from the return of the callback.  columns
\* are the ColumnDefs the statements were compiled from.
createTableEnd ==
    /\ Building
    /\ ~builder[1].isAlter
    /\ executed' = [op |-> "createTable", name |-> builder[1].tableName,
                    columns |-> builder[1].columns, made |-> builder[1].made,
                    statements |-> <<toCreateSql(builder[1])>> \o toIndexSql(builder[1])]
    /\ builder' = <<>>
    /\ UNCHANGED <<baseVars, qbVars, wrapper>>

\* Schema.table(name, callback), until the callback is called.
table(name) ==
    /\ ~Building
    /\ builder' = <<NewBuilder(name, TRUE)>>
    /\ executed' = NothingExecuted
    /\ UNCHANGED <<baseVars, qbVars, wrapper>>

\* Schema.table(name, callback), from the return of the callback.
tableEnd ==
    /\ Building
    /\ builder[1].isAlter
    /\ executed' =
           [op |-> "table", name |-> builder[1].tableName, columns |-> builder[1].columns,
            made |-> builder[1].made,
            statements |->
                [i \in 1..Len(builder[1].columns) |->
                    <<Lit("ALTER TABLE "), Interp("identifier", quote(builder[1].tableName)),
                      Lit(" ADD COLUMN ")>> \o AlterDef(builder[1].columns[i])]]
    /\ builder' = <<>>
    /\ UNCHANGED <<baseVars, qbVars, wrapper>>

TableIdle ==
    /\ builder = <<>>
    /\ executed = NothingExecuted

NextTable ==
    \/ \E name \in BuiltTables : createTable(name)
    \/ \E name \in BuiltTables : table(name)
    \/ increments(Id)
    \/ \E name \in ColumnNames : integer(name)
    \/ text(Name)
    \/ foreignId(<<"userId">>)
    \/ timestamps
    \/ \E i \in 1..MaxColumns : unique(i)
    \/ \E i \in 1..MaxColumns : nullable(i)
    \/ \E i \in 1..MaxColumns : notNull(i)
    \/ \E i \in 1..MaxColumns, value \in DefaultValues : default(i, value)
    \/ \E i \in 1..MaxColumns : primary(i)
    \/ \E i \in 1..MaxColumns : references(i, Users, Id)
    \/ uniqueConstraint(Id)
    \/ index(Id)
    \/ foreign(Id, Users, Id)
    \/ createTableEnd
    \/ tableEnd

(***************************************************************************)
(* A subclass of BaseModel: class Users with tableName "users", protected  *)
(* ["name"] and timestamps not set.  A static method of the class returns  *)
(* a query builder and the calls that follow are made on that builder.     *)
(***************************************************************************)
UsersModel ==
    [tableName |-> Users, protected |-> <<Name>>, timestamps |-> [kind |-> "undefined"]]

getTimestampFieldsForModel(modelClass) ==
    IF modelClass.timestamps = [kind |-> "boolean", value |-> FALSE] THEN <<>>
    ELSE IF modelClass.timestamps.kind \in {"boolean", "undefined"}
    THEN <<(<<"createdAt">>), (<<"updatedAt">>)>>
    ELSE modelClass.timestamps.value

getFieldsToExcludeForModel(modelClass) ==
    modelClass.protected \o getTimestampFieldsForModel(modelClass)

queryForModel(modelClass) ==
    IF Len(getFieldsToExcludeForModel(modelClass)) > 0
    THEN exclude(NewState(modelClass.tableName), getFieldsToExcludeForModel(modelClass))
    ELSE NewState(modelClass.tableName)

\* applyExclusionsForModel on every row; find() and first() give it <<>> for null.
applyExclusionsToArrayForModel(modelClass, data) ==
    [i \in 1..Len(data) |->
        [c \in DOMAIN data[i] \ Range(getFieldsToExcludeForModel(modelClass)) |-> data[i][c]]]

\* The call op of QueryBuilderImpl on a builder in state s.
Applied(s, op, args) ==
    CASE op = "select" -> select(s, args[1])
      [] op = "exclude" -> exclude(s, args[1])
      [] op = "where" -> where(s, args[1], args[2], args[3])
      [] op = "limit" -> limit(s, args[1])
      [] op = "offset" -> offset(s, args[1])
      [] op = "orderBy" -> orderBy(s, args[1], args[2])

\* The rows all(), first() or find(id) of QueryBuilderImpl returns in state s.
Returned(s, op, id) ==
    CASE op = "all" ->
             filterColumns(s, QueryAll(buildSelectQuery(s).sql, buildSelectQuery(s).params))
      [] op = "first" ->
             LET limited == [s EXCEPT !.limitCount = <<1>>]
             IN  filterColumns(limited, QueryGet(buildSelectQuery(limited).sql,
                                                 buildSelectQuery(limited).params))
      [] op = "find" -> filterColumns(s, QueryGet(findQuery(s, id).sql, findQuery(s, id).params))

\* Users.select(...), Users.exclude(...), Users.where(...), Users.limit(...),
\* Users.offset(...), Users.orderBy(...): only select() returns a wrapped builder.
Static(op, args) ==
    /\ state' = Applied(IF op = "select" THEN NewState(UsersModel.tableName)
                        ELSE queryForModel(UsersModel), op, args)
    /\ wrapper' = IF op = "select" THEN "wrapped" ELSE "plain"
    /\ answer' = [Asked(op) EXCEPT !.args = args, !.returned = "Users"]
    /\ UNCHANGED <<baseVars, tbVars>>

\* Users.all(), Users.first(), Users.find(id)
StaticTerminal(op, id) ==
    /\ answer' = [Asked(op) EXCEPT
                     !.args = IF op = "find" THEN <<id>> ELSE <<>>, !.returned = "Users",
                     !.rows = applyExclusionsToArrayForModel(
                                  UsersModel, Returned(queryForModel(UsersModel), op, id))]
    /\ UNCHANGED <<state, wrapper, baseVars, tbVars>>

\* The builder calls made on the builder in hand that show in its state.
Later(s) ==
    Size(s) - (IF wrapper = "plain" THEN Len(getFieldsToExcludeForModel(UsersModel)) ELSE 0)

\* A builder call on the builder in hand: a wrapped builder makes the call on the
\* builder it wraps and wraps the result.
Chain(op, args) ==
    /\ wrapper # "none"
    /\ Later(state) < MaxChain
    /\ state' = Applied(state, op, args)
    /\ answer' = [Asked(op) EXCEPT !.args = args]
    /\ UNCHANGED <<wrapper, baseVars, tbVars>>

\* all(), first() or find(id) on the builder in hand; first() restores the limit.
ChainTerminal(op, id) ==
    /\ wrapper # "none"
    /\ answer' = [Asked(op) EXCEPT
                     !.args = IF op = "find" THEN <<id>> ELSE <<>>,
                     !.rows = IF wrapper = "wrapped"
                              THEN applyExclusionsToArrayForModel(UsersModel,
                                                                  Returned(state, op, id))
                              ELSE Returned(state, op, id)]
    /\ UNCHANGED <<state, wrapper, baseVars, tbVars>>

ModelIdle == wrapper = "none"

\* The builder calls with their arguments.
BuilderCalls ==
    {<<"select", <<columns>>>> : columns \in ColumnLists}
    \cup {<<"exclude", <<columns>>>> : columns \in ColumnLists}
    \cup {<<"where", <<Id, v, <<>>>>>> : v \in Values}
    \cup {<<"limit", <<count>>>> : count \in 0..MaxLimit}
    \cup {<<"offset", <<count>>>> : count \in 0..MaxOffset}
    \cup {<<"orderBy", <<Age, direction>>>> : direction \in {"asc", "desc"}}

\* all(), first() and find(id): the id counts for find() only.
Terminals == {<<"all", 0>>, <<"first", 0>>} \cup {<<"find", id>> : id \in FindIds}

NextModel ==
    \/ \E call \in BuilderCalls : Static(call[1], call[2])
    \/ \E call \in Terminals : StaticTerminal(call[1], call[2])
    \/ \E call \in BuilderCalls : Chain(call[1], call[2])
    \/ \E call \in Terminals : ChainTerminal(call[1], call[2])

(***************************************************************************)
(* The specifications.  A new process on a new database file: nothing is   *)
(* running.                                                                *)
(*   SpecTx     transaction() calls, one outermost call at a time, on a    *)
(*              connection whose statements fail only when the state of    *)
(*              the transaction forbids them                               *)
(*   SpecFault  SpecTx and statements that fail with an error on which     *)
(*              SQLite rolls the transaction back                          *)
(*   SpecMig    Migrator.up() and Migrator.down(), one call at a time      *)
(***************************************************************************)
Init == TxIdle /\ MigIdle /\ ConnIdle /\ QueryIdle /\ TableIdle /\ ModelIdle /\ UpsIdle

SpecTx == Init /\ [][NextTx]_vars

SpecFault == Init /\ [][NextFault]_vars

SpecMig == Init /\ [][NextMig]_vars

SpecLedger == Init /\ [][NextLedger]_vars

SpecConn == Init /\ [][NextConn]_vars

SpecOverlap == Init /\ [][NextOverlap]_vars

SpecCreate == Init /\ [][NextCreate]_vars

SpecQuery == Init /\ [][NextQuery]_vars

SpecQueryFault == Init /\ [][NextQueryFault]_vars

SpecSchema == Init /\ [][NextSchema]_vars

SpecTable == Init /\ [][NextTable]_vars

SpecModel == Init /\ [][NextModel]_vars

SpecClose == Init /\ [][NextClose]_vars

SpecExec == Init /\ [][NextExec]_vars

SpecSettle == Init /\ [][NextSettle]_vars

SpecAmbient == Init /\ [][NextAmbient]_vars

SpecUps == Init /\ [][NextUps]_vars

(***************************************************************************)
(* Reading the history of the latest outermost call.                       *)
(***************************************************************************)
Idx(e, id) == {i \in 1..Len(log) : log[i].ev = e /\ log[i].call = id}

Inserts == {i \in 1..Len(log) : log[i].ev = "INSERT"}

AllBefore(S, T) == \A i \in S, j \in T : i < j

Failed(e, id) == \E i \in Idx(e, id) : ~log[i].ok

Nesteds == {i \in 1..Len(calls) : calls[i].kind = "nested"}

Done(id) == calls[id].promise # "pending"

Rejected(id) == calls[id].promise \in {"rejected", "thrown"}

\* The calls enclosing call id, from its caller to the outermost call.
RECURSIVE Ancestors(_)
Ancestors(id) ==
    IF calls[id].parent = 0 THEN {}
    ELSE {calls[id].parent} \cup Ancestors(calls[id].parent)

\* Call id and the calls made inside its body, directly or not.
Inside(id) == {k \in 1..Len(calls) : k = id \/ id \in Ancestors(k)}

WritesOf(S) == UNION {calls[k].writes : k \in S}

Visible == db.content.rows

OuterDone == calls # <<>> /\ Done(1)

(***************************************************************************)
(* C1.  An outermost transaction() whose body succeeds: BEGIN comes        *)
(* before the body is invoked, every statement of the bodies comes after   *)
(* BEGIN and before COMMIT, COMMIT comes after the body has settled and    *)
(* no ROLLBACK is issued, the promise resolves to the body's result, and   *)
(* the rows the body wrote are visible afterwards.                         *)
(***************************************************************************)
C1_OuterSuccessCommits ==
    (calls # <<>> /\ calls[1].body = "ok") =>
        /\ calls[1].promise = "resolved"
        /\ calls[1].value = calls[1].bodyValue
        /\ Cardinality(Idx("BEGIN", 1)) = 1
        /\ Cardinality(Idx("COMMIT", 1)) = 1
        /\ ~Failed("BEGIN", 1) /\ ~Failed("COMMIT", 1)
        /\ Idx("ROLLBACK", 1) = {}
        /\ AllBefore(Idx("BEGIN", 1), Idx("invoke", 1))
        /\ AllBefore(Idx("invoke", 1), Inserts)
        /\ AllBefore(Inserts, Idx("COMMIT", 1))
        /\ AllBefore(Idx("settle", 1), Idx("COMMIT", 1))
        /\ ~db.inTx
        /\ calls[1].writes \subseteq Visible
        /\ calls[1].writes \subseteq db.committed.rows

C1_Witness ==
    /\ OuterDone
    /\ calls[1].body = "ok"
    /\ calls[1].async
    /\ Cardinality(calls[1].writes) >= 2
    /\ Nesteds # {}

(***************************************************************************)
(* C2.  An outermost transaction() whose body throws or whose promise      *)
(* rejects: ROLLBACK is issued and COMMIT is not, the promise rejects with *)
(* the error the body raised, and no row written during the call is        *)
(* visible afterwards.                                                     *)
(***************************************************************************)
C2_OuterFailureRollsBack ==
    (calls # <<>> /\ calls[1].body = "err") =>
        /\ calls[1].promise = "rejected"
        /\ calls[1].error = calls[1].bodyError
        /\ Cardinality(Idx("ROLLBACK", 1)) = 1
        /\ Idx("COMMIT", 1) = {}
        /\ AllBefore(Idx("settle", 1), Idx("ROLLBACK", 1))
        /\ ~db.inTx
        /\ WritesOf(1..Len(calls)) \cap Visible = {}
        /\ WritesOf(1..Len(calls)) \cap db.committed.rows = {}

C2_Witness ==
    /\ OuterDone
    /\ calls[1].body = "err"
    /\ calls[1].error = BodyError(1)
    /\ calls[1].writes # {}
    /\ \E n \in Nesteds : calls[n].promise = "resolved" /\ calls[n].writes # {}

(***************************************************************************)
(* C3.  A nested call fails, its caller's body catches the failure, and    *)
(* the bodies of the enclosing calls complete successfully: the rows       *)
(* written inside the nested body are not visible, the rows the enclosing  *)
(* bodies wrote before and after the nested call are committed, and the    *)
(* outer transaction is committed, not rolled back.                        *)
(***************************************************************************)
C3_CaughtNestedFailure ==
    \A n \in Nesteds :
        ( /\ OuterDone
          /\ Rejected(n)
          /\ calls[n].caught
          /\ \A a \in Ancestors(n) : calls[a].body = "ok" ) =>
            /\ \A a \in Ancestors(n) : calls[a].promise = "resolved"
            /\ WritesOf(Inside(n)) \cap Visible = {}
            /\ WritesOf(Ancestors(n)) \subseteq Visible
            /\ WritesOf(Ancestors(n)) \subseteq db.committed.rows
            /\ Idx("ROLLBACK", 1) = {}
            /\ Cardinality(Idx("COMMIT", 1)) = 1

\* The caller wrote a row before the nested call and one after it.
C3_Witness ==
    \E n \in Nesteds :
        /\ OuterDone
        /\ calls[n].parent = 1
        /\ Rejected(n)
        /\ calls[n].caught
        /\ calls[n].writes # {}
        /\ calls[1].promise = "resolved"
        /\ \E i \in Idx("INSERT", 1) : AllBefore({i}, Idx("SAVEPOINT", n))
        /\ \E i \in Idx("INSERT", 1) : AllBefore(Idx("ROLLBACK TO", n), {i})

(***************************************************************************)
(* C9.  When the ROLLBACK of an outermost call or the ROLLBACK TO          *)
(* SAVEPOINT of a nested call fails after a failure of the body, the       *)
(* caller still receives the body's error.                                 *)
(***************************************************************************)
C9_RollbackFailureSwallowed ==
    \A c \in 1..Len(calls) :
        ( /\ calls[c].body = "err"
          /\ Failed("ROLLBACK", c) \/ Failed("ROLLBACK TO", c) ) =>
            /\ Rejected(c)
            /\ calls[c].error = calls[c].bodyError

C9_Witness ==
    /\ OuterDone
    /\ calls[1].body = "err"
    /\ Failed("ROLLBACK", 1)
    /\ \E n \in Nesteds : calls[n].body = "err" /\ Failed("ROLLBACK TO", n)

(***************************************************************************)
(* C10.  A nested call issues SAVEPOINT before its body runs.  When the    *)
(* body succeeded it issues RELEASE SAVEPOINT and no ROLLBACK TO, and      *)
(* once the outermost call has ended its rows are visible exactly when     *)
(* every enclosing call ended successfully.  When the body failed it       *)
(* issues ROLLBACK TO SAVEPOINT and no RELEASE, and the caller receives    *)
(* the body's error.                                                       *)
(***************************************************************************)
C10_NestedSavepoint ==
    \A n \in Nesteds :
        /\ Cardinality(Idx("SAVEPOINT", n)) = 1
        /\ AllBefore(Idx("SAVEPOINT", n), Idx("invoke", n))
        /\ AllBefore(Idx("invoke", n), Idx("INSERT", n))
        /\ calls[n].body = "ok" =>
            /\ Cardinality(Idx("RELEASE", n)) = 1
            /\ Idx("ROLLBACK TO", n) = {}
            /\ AllBefore(Idx("settle", n), Idx("RELEASE", n))
            /\ calls[n].promise = "resolved"
            /\ calls[n].value = calls[n].bodyValue
            /\ OuterDone =>
                \A r \in calls[n].writes :
                    r \in Visible <=> \A a \in Ancestors(n) : calls[a].promise = "resolved"
        /\ calls[n].body = "err" =>
            /\ Cardinality(Idx("ROLLBACK TO", n)) = 1
            /\ Idx("RELEASE", n) = {}
            /\ AllBefore(Idx("settle", n), Idx("ROLLBACK TO", n))
            /\ Rejected(n)
            /\ calls[n].error = calls[n].bodyError

\* A nested call inside a nested call, both with rows: one succeeded, one failed.
C10_Witness ==
    /\ OuterDone
    /\ \E n \in Nesteds, m \in Nesteds :
        /\ calls[m].parent = n
        /\ calls[n].body = "ok" /\ calls[n].writes # {}
        /\ calls[m].body = "err" /\ calls[m].writes # {}

(***************************************************************************)
(* Reading the history of the latest Migrator call.  A unit event carries  *)
(* the unit's name, a deleteBatch event the batch number.                  *)
(***************************************************************************)
\* The discovered names without a ledger row when the call began, and the batch
\* number the ledger then called for.
PendingBefore == {n \in pre.files : \A r \in pre.ledger : r.name # n}

BatchBefore ==
    IF pre.ledger = {} THEN 1
    ELSE 1 + CHOOSE b \in {r.batch : r \in pre.ledger} :
                 \A r \in pre.ledger : r.batch <= b

NewRows == db.content.ledger \ pre.ledger

RowBefore(name) == CHOOSE r \in pre.ledger : r.name = name

Downs == {i \in 1..Len(log) : log[i].ev = "down"}

UnitFailures == {i \in 1..Len(log) : log[i].ev \in {"load", "up", "down"} /\ ~log[i].ok}

LastIs(e) == log # <<>> /\ log[Len(log)].ev = e /\ log[Len(log)].ok

\* The k highest batch numbers of the ledger as it was when the call began.
TopBatches(k) ==
    {b \in {r.batch : r \in pre.ledger} :
        Cardinality({c \in {r.batch : r \in pre.ledger} : c > b}) < k}

StepsAsked == IF mig.given THEN mig.steps ELSE 1

(***************************************************************************)
(* C4.  up() with pending units runs in one transaction; the units' up     *)
(* operations run once each in ascending name order, a unit is logged      *)
(* before the next unit's up starts, and every row logged carries the      *)
(* batch number max(batch)+1 of the ledger before the run (1 when it was   *)
(* empty).                                                                 *)
(***************************************************************************)
C4_UpOneBatchInOrder ==
    mig.last = "up" =>
        /\ \A i \in 1..Len(log) :
              log[i].ev \in {"load", "up", "log"} => log[i].call \in PendingBefore
        /\ \A p \in PendingBefore :
              /\ Cardinality(Idx("up", p)) <= 1
              /\ Cardinality(Idx("log", p)) <= 1
              /\ Idx("log", p) # {} => Idx("up", p) # {}
              /\ AllBefore(Idx("up", p), Idx("log", p))
              /\ AllBefore(Idx("BEGIN", 0), Idx("up", p))
        /\ \A p \in PendingBefore, q \in PendingBefore :
              (p < q /\ Idx("up", q) # {}) =>
                  /\ Idx("log", p) # {}
                  /\ AllBefore(Idx("log", p), Idx("up", q))
        /\ \A r \in NewRows : r.batch = BatchBefore /\ r.name \in PendingBefore
        /\ (outcome.status = "resolved" /\ PendingBefore # {}) =>
              /\ Cardinality(Idx("BEGIN", 0)) = 1
              /\ Cardinality(Idx("COMMIT", 0)) = 1
              /\ LastIs("COMMIT")
              /\ ~db.inTx
              /\ db.committed.ledger = db.content.ledger
              /\ \A p \in PendingBefore :
                    /\ Cardinality(Idx("up", p)) = 1
                    /\ Cardinality({r \in NewRows : r.name = p}) = 1
              /\ PendingBefore \subseteq db.content.schema

\* A second run, of two units, over a ledger that holds batch 1.
C4_Witness ==
    /\ mig.last = "up"
    /\ outcome.status = "resolved"
    /\ pre.ledger # {}
    /\ Cardinality(PendingBefore) >= 2
    /\ Cardinality(NewRows) >= 2

(***************************************************************************)
(* C5.  When a unit fails to load or its up or down operation fails, the   *)
(* call rejects with that error, and the ledger rows and the units'        *)
(* changes are as they were before the call.                               *)
(***************************************************************************)
C5_FailureLeavesNothing ==
    (mig.op = "idle" /\ UnitFailures # {}) =>
        /\ outcome.status = "rejected"
        /\ \E i \in UnitFailures :
              /\ \A j \in UnitFailures : j <= i
              /\ outcome.error = UnitError(log[i].ev, log[i].call)
        /\ ~db.inTx
        /\ db.content.ledger = pre.ledger
        /\ db.content.schema = pre.schema
        /\ db.content.ledgerSeq = pre.ledgerSeq
        /\ db.committed.ledger = pre.ledger
        /\ db.committed.schema = pre.schema

\* The failure came after a unit of the same call had run and been logged.
C5_Witness ==
    /\ mig.op = "idle"
    /\ mig.last = "up"
    /\ pre.ledger # {}
    /\ \E i \in UnitFailures : log[i].ev = "up"
    /\ \E i \in 1..Len(log) : log[i].ev = "log"

(***************************************************************************)
(* C6.  down() takes the batches in descending batch number and, within a  *)
(* batch, the units in the reverse of the order in which their rows were   *)
(* inserted; it deletes the rows of a batch after every down operation of  *)
(* the batch has completed and before the next batch starts.               *)
(***************************************************************************)
C6_DownOrder ==
    mig.last = "down" =>
        /\ \A i \in Downs, j \in Downs :
              i < j =>
                  \/ RowBefore(log[i].call).batch > RowBefore(log[j].call).batch
                  \/ /\ RowBefore(log[i].call).batch = RowBefore(log[j].call).batch
                     /\ RowBefore(log[i].call).id > RowBefore(log[j].call).id
        /\ \A i \in 1..Len(log) :
              log[i].ev = "deleteBatch" =>
                  /\ \A r \in pre.ledger :
                        r.batch = log[i].call =>
                            \E j \in Idx("down", r.name) : j < i /\ log[j].ok
                  /\ \A j \in Downs :
                        j > i => RowBefore(log[j].call).batch < log[i].call
        /\ \A j \in Downs, i \in Downs :
              RowBefore(log[i].call).batch > RowBefore(log[j].call).batch =>
                  \E k \in Idx("deleteBatch", RowBefore(log[i].call).batch) : k < j

\* Two batches rolled back, the higher one of two units.
C6_Witness ==
    /\ mig.last = "down"
    /\ outcome.status = "resolved"
    /\ Cardinality({i \in 1..Len(log) : log[i].ev = "deleteBatch"}) >= 2
    /\ \E r \in pre.ledger, q \in pre.ledger :
          r.batch = q.batch /\ r.id # q.id /\ r.batch \in TopBatches(1)

(***************************************************************************)
(* C7.  down({steps: k}) with k >= 1 on a ledger with rows removes exactly *)
(* the rows of the min(k, number of batches) highest batches, invokes down *)
(* once for each unit of those rows and for no other unit, and leaves the  *)
(* other rows as they were; without the option, k is 1.                    *)
(***************************************************************************)
C7_DownSteps ==
    ( /\ mig.last = "down"
      /\ outcome.status = "resolved"
      /\ StepsAsked >= 1 ) =>
        /\ pre.ledger # {}
        /\ db.content.ledger = {r \in pre.ledger : r.batch \notin TopBatches(StepsAsked)}
        /\ db.committed.ledger = db.content.ledger
        /\ \A r \in pre.ledger :
              Cardinality(Idx("down", r.name)) =
                  IF r.batch \in TopBatches(StepsAsked) THEN 1 ELSE 0
        /\ \A i \in Downs : \E r \in pre.ledger : r.name = log[i].call

\* Two of three batches rolled back.
C7_Witness ==
    /\ mig.last = "down"
    /\ outcome.status = "resolved"
    /\ mig.given /\ mig.steps = 2
    /\ Cardinality({r.batch : r \in pre.ledger}) = 3
    /\ db.content.ledger # {}

\* The option is absent.
C7_WitnessDefault ==
    /\ mig.last = "down"
    /\ outcome.status = "resolved"
    /\ ~mig.given
    /\ Cardinality({r.batch : r \in pre.ledger}) >= 2

(***************************************************************************)
(* C8.  A getDriver() call that finds a cached instance returns it, and    *)
(* constructs and closes nothing, when the active database configuration   *)
(* equals the one the instance was constructed from; when the              *)
(* configuration differs, it closes the cached instance once, constructs   *)
(* an instance from the active configuration, caches it and returns it.    *)
(* setOrmConfig() closes and constructs nothing.                           *)
(***************************************************************************)
C8_CacheFollowsConfig ==
    /\ ( /\ ret.op = "getDriver"
         /\ ~ret.threw
         /\ ret.cachedBefore # 0 ) =>
            IF globalOrmConfig[1].database = drivers[ret.cachedBefore].config
            THEN /\ ret.returned = ret.cachedBefore
                 /\ cachedDriver = ret.cachedBefore
                 /\ ret.made = <<>>
                 /\ ret.closed = <<>>
            ELSE /\ ret.closed = <<ret.cachedBefore>>
                 /\ ~drivers[ret.cachedBefore].open
                 /\ Len(ret.made) = 1
                 /\ drivers[ret.made[1]].config = globalOrmConfig[1].database
                 /\ cachedDriver = ret.made[1]
                 /\ ret.returned = ret.made[1]
    /\ ret.op = "setOrmConfig" => ret.made = <<>> /\ ret.closed = <<>>

(***************************************************************************)
(* C13.  up() when every discovered name has a ledger row resolves         *)
(* without a transaction, without a unit's up operation and without a      *)
(* change of the ledger: an up() after a successful up() applies nothing.  *)
(***************************************************************************)
C13_UpNothingPending ==
    (mig.last = "up" /\ PendingBefore = {}) =>
        /\ mig.op = "idle"
        /\ outcome = Resolved
        /\ log = <<>>
        /\ ~db.inTx
        /\ db.content.ledger = pre.ledger
        /\ db.committed.ledger = pre.ledger
        /\ db.content.ledgerSeq = pre.ledgerSeq
        /\ db.content.schema = pre.schema

\* An up() that found every one of two or more discovered names applied.
C13_Witness ==
    /\ mig.last = "up"
    /\ PendingBefore = {}
    /\ Cardinality(pre.files) >= 2
    /\ pre.files = {r.name : r \in pre.ledger}

(***************************************************************************)
(* C14.  down() on a ledger without rows rejects with "No migrations to    *)
(* rollback", opens no transaction, invokes no down operation and leaves   *)
(* the ledger without rows.                                                *)
(***************************************************************************)
C14_DownEmptyLedger ==
    (mig.last = "down" /\ pre.ledger = {}) =>
        /\ mig.op = "idle"
        /\ outcome.status = "rejected"
        /\ outcome.error = NothingToRollback
        /\ log = <<>>
        /\ ~db.inTx
        /\ db.content.ledger = {}
        /\ db.committed.ledger = {}
        /\ db.content.ledgerSeq = pre.ledgerSeq

\* down() on a ledger emptied by an earlier down(), the files still there.
C14_Witness ==
    /\ mig.last = "down"
    /\ pre.ledger = {}
    /\ pre.ledgerSeq > 0
    /\ pre.files # {}
    /\ outcome.status = "rejected"

(***************************************************************************)
(* C15.  down({steps: k}) with k <= 0 on a ledger with rows rejects with   *)
(* "No migrations to rollback", invokes no down operation and deletes no   *)
(* ledger row.                                                             *)
(***************************************************************************)
C15_DownNoSteps ==
    ( /\ mig.last = "down"
      /\ mig.given
      /\ mig.steps <= 0
      /\ pre.ledger # {} ) =>
        /\ mig.op = "idle"
        /\ outcome.status = "rejected"
        /\ outcome.error = NothingToRollback
        /\ Downs = {}
        /\ db.content.ledger = pre.ledger

(***************************************************************************)
(* C17.  The batch number of a run of up() is max(batch)+1 over the rows   *)
(* of the ledger, 1 for a ledger without rows; after any up() and down()   *)
(* calls the batch numbers are positive and, read in the order of the ids, *)
(* never decrease.                                                         *)
(***************************************************************************)
C17_BatchNumbersAscend ==
    /\ mig.op = "up" => mig.batch = BatchBefore
    /\ \A r \in db.content.ledger : r.batch >= 1
    /\ \A r \in db.content.ledger, q \in db.content.ledger :
          r.id < q.id => r.batch <= q.batch

\* A run of up() on a ledger of two batches from which a batch was deleted
\* earlier.
C17_Witness ==
    /\ mig.last = "up"
    /\ outcome.status = "resolved"
    /\ NewRows # {}
    /\ Cardinality({r.batch : r \in pre.ledger}) >= 2
    /\ pre.ledgerSeq > Cardinality(pre.ledger)

(***************************************************************************)
(* C16.  status() returns the discovered names that have a ledger row as   *)
(* ran and the other discovered names as pending, each list in ascending   *)
(* name order; a name with a ledger row that is not discovered is in       *)
(* neither list; the ledger rows are as before.                            *)
(***************************************************************************)
Ascending(q) == \A i \in 1..Len(q), j \in 1..Len(q) : i < j => q[i] < q[j]

NamesOf(q) == {q[i] : i \in 1..Len(q)}

C16_StatusPartitions ==
    mig.last = "status" =>
        /\ outcome = Resolved
        /\ NamesOf(mig.ran) = {n \in pre.files : \E r \in pre.ledger : r.name = n}
        /\ NamesOf(mig.pending) = {n \in pre.files : \A r \in pre.ledger : r.name # n}
        /\ Ascending(mig.ran)
        /\ Ascending(mig.pending)
        /\ db.content.ledger = pre.ledger
        /\ db.committed.ledger = pre.ledger
        /\ db.content.ledgerSeq = pre.ledgerSeq

\* A name that ran and a name that is pending, and a ledger row of a name that
\* is not discovered.
C16_Witness ==
    /\ mig.last = "status"
    /\ mig.ran # <<>>
    /\ mig.pending # <<>>
    /\ \E r \in pre.ledger : r.name \notin pre.files

(***************************************************************************)
(* Reading the batches of a down() call in the history.  The events of     *)
(* batch number s of the call are those after s - 1 deleteBatch events.    *)
(***************************************************************************)
Segment(i) == 1 + Cardinality({j \in 1..(i - 1) : log[j].ev = "deleteBatch"})

PlaceInSegment(i) ==
    1 + Cardinality({j \in Downs : j < i /\ Segment(j) = Segment(i)})

\* The batch number with s - 1 higher batch numbers in the ledger of before, and
\* its row with n - 1 rows of higher id.
BatchesBefore == {r.batch : r \in pre.ledger}

NthBatch(s) == {b \in BatchesBefore : Cardinality({c \in BatchesBefore : c > b}) = s - 1}

NthLatestRow(b, n) ==
    {r \in pre.ledger :
        /\ r.batch = b
        /\ Cardinality({q \in pre.ledger : q.batch = b /\ q.id > r.id}) = n - 1}

(***************************************************************************)
(* C18 as stated.  Within every batch rolled back by down(), the down      *)
(* operations are invoked in descending name order, whatever public        *)
(* operations wrote the ledger.                                            *)
(***************************************************************************)
C18_DownDescendingNames ==
    mig.last = "down" =>
        \A i \in Downs, j \in Downs :
            (i < j /\ Segment(i) = Segment(j)) => log[i].call >= log[j].call

(***************************************************************************)
(* C18 as amended.  Within every batch rolled back by down(), the down     *)
(* operations are invoked in the reverse of the order in which the rows of *)
(* the batch were inserted, whatever public operations wrote the ledger;   *)
(* that is descending name order when the rows of the batch were inserted  *)
(* in ascending name order.                                                *)
(***************************************************************************)
C18_DownReverseInsertion ==
    mig.last = "down" =>
        \A i \in Downs :
            /\ \E b \in NthBatch(Segment(i)) :
                  \E r \in NthLatestRow(b, PlaceInSegment(i)) : r.name = log[i].call
            /\ \A j \in Downs :
                  ( /\ i < j
                    /\ Segment(i) = Segment(j)
                    /\ \A b \in NthBatch(Segment(i)) :
                          \A r \in pre.ledger, q \in pre.ledger :
                              (r.batch = b /\ q.batch = b /\ r.id < q.id) => r.name < q.name )
                  => log[i].call > log[j].call

\* A batch rolled back whose rows were inserted in descending name order.
C18_Witness ==
    /\ mig.last = "down"
    /\ outcome.status = "resolved"
    /\ \E r \in pre.ledger, q \in pre.ledger :
          /\ r.batch = q.batch
          /\ r.id < q.id
          /\ r.name > q.name
          /\ r \notin db.content.ledger
          /\ q \notin db.content.ledger

(***************************************************************************)
(* Reading the calls of a process whose bodies overlap.                    *)
(***************************************************************************)
NestedCalls == {i \in 1..Len(calls) : calls[i].kind = "nested"}

OuterCalls == {i \in 1..Len(calls) : calls[i].kind = "outer"}

(***************************************************************************)
(* C11.  Any two nested transaction() calls of the process, whatever the   *)
(* handles and the interleaving of the bodies, use distinct savepoint      *)
(* names, and the counter in the name of a later call is higher: the       *)
(* process-wide counter is the number of nested calls made so far.         *)
(***************************************************************************)
C11_SavepointNamesDistinct ==
    /\ \A i \in NestedCalls, j \in NestedCalls :
          i < j => /\ calls[i].sp # calls[j].sp
                   /\ calls[i].sp[1] < calls[j].sp[1]
    /\ \A i \in NestedCalls : calls[i].sp[1] <= globalSavepointCounter
    /\ globalSavepointCounter = Cardinality(NestedCalls)

\* Two nested calls made at the same time of the clock on the handles of two
\* calls, both bodies still waiting.
C11_Witness ==
    \E i \in NestedCalls, j \in NestedCalls :
        /\ i < j
        /\ calls[i].sp[2] = calls[j].sp[2]
        /\ calls[i].parent # calls[j].parent
        /\ {i, j} \subseteq Pending

(***************************************************************************)
(* C12.  While the asynchronous body of an outermost call has not settled  *)
(* and its transaction is neither committed nor rolled back, no other      *)
(* outermost call issues BEGIN or invokes its body.                        *)
(***************************************************************************)
C12_OuterCallsSerialized ==
    [][ ( /\ Len(calls') = Len(calls) + 1
          /\ calls'[Len(calls')].kind = "outer" ) =>
            \A a \in OuterCalls : calls[a].promise # "pending" ]_vars

(***************************************************************************)
(* C19.  closeDriver() closes the cached instance once and empties the     *)
(* cache; resetDriver() empties the cache and closes nothing, the instance *)
(* staying open; with an empty cache both do nothing and raise nothing;    *)
(* a getDriver() that finds the cache empty constructs a new instance.     *)
(***************************************************************************)
C19_CloseAndReset ==
    /\ ret.op = "closeDriver" =>
          /\ ~ret.threw
          /\ cachedDriver = 0
          /\ ret.made = <<>>
          /\ IF ret.cachedBefore # 0
             THEN /\ ret.closed = <<ret.cachedBefore>>
                  /\ ~drivers[ret.cachedBefore].open
                  /\ cachedConfigHash = <<>>
             ELSE ret.closed = <<>>
    /\ ret.op = "resetDriver" =>
          /\ ~ret.threw
          /\ cachedDriver = 0
          /\ cachedConfigHash = <<>>
          /\ ret.made = <<>>
          /\ ret.closed = <<>>
          /\ ret.cachedBefore # 0 => drivers[ret.cachedBefore].open
    /\ (ret.op = "getDriver" /\ ~ret.threw /\ ret.cachedBefore = 0) =>
          /\ ret.made = <<Len(drivers)>>
          /\ ret.returned = Len(drivers)
          /\ cachedDriver = Len(drivers)
          /\ drivers[Len(drivers)].open
          /\ ret.closed = <<>>

\* After resetDriver(), getDriver() has constructed a second instance and the
\* first is still open.
C19_Witness ==
    /\ ret.op = "getDriver"
    /\ ret.cachedBefore = 0
    /\ ret.made = <<2>>
    /\ drivers[1].open
    /\ drivers[1].config = drivers[2].config

\* closeDriver() called again, on the cache it has emptied.
C19_WitnessRepeated ==
    /\ ret.op = "closeDriver"
    /\ ret.cachedBefore = 0
    /\ drivers # <<>>
    /\ ~drivers[Len(drivers)].open

(***************************************************************************)
(* C20.  Every driver getDriver() returns was constructed from a           *)
(* configuration equal to the active one, and is not an instance that      *)
(* closeDriver() or the eviction of a stale instance has closed.           *)
(***************************************************************************)
C20_ReturnedDriverIsCurrent ==
    (ret.op = "getDriver" /\ ~ret.threw) =>
        /\ ret.returned # 0
        /\ drivers[ret.returned].config = globalOrmConfig[1].database
        /\ drivers[ret.returned].open

\* The message of an error tells the caller to register a driver.
SuggestsRegistration(error) == error = NotSupported(error.type)

\* A createDriver(config) call found no factory for the type of config.
Unregistered == ret.op = "createDriver" /\ ret.config[1].type \notin DOMAIN driverRegistry

\* What C21 says of every type but mysql: the factory registered last wins over
\* the built-in driver, sqlite without a factory needs its path, and a failure
\* constructs nothing.
CreateDriverOrder ==
    /\ ret.op = "registerDriver" =>
           /\ ret.registered[1] \in DOMAIN driverRegistry
           /\ driverRegistry[ret.registered[1]] = ret.registered[2]
    /\ ret.op = "createDriver" =>
           LET config == ret.config[1]
           IN  /\ config.type \in DOMAIN driverRegistry =>
                      /\ ~ret.threw
                      /\ ret.made = <<ret.returned>>
                      /\ drivers[ret.returned].by = driverRegistry[config.type]
               /\ Unregistered /\ config.type = "sqlite" /\ config.section.path # "" =>
                      /\ ~ret.threw
                      /\ ret.made = <<ret.returned>>
                      /\ drivers[ret.returned].by = BuiltIn
               /\ Unregistered /\ config.type = "sqlite" /\ config.section.path = "" =>
                      ret.threw /\ ret.error = SqlitePathRequired
               /\ ret.threw => ret.made = <<>> /\ ret.returned = 0

\* C21 as stated: createDriver(config) calls the factory registered last for
\* config.type, else constructs the built-in sqlite driver when the type is sqlite
\* and a path is present, else throws without constructing anything: a missing-path
\* error for sqlite, and for every other type an error that names the type and
\* suggests registerDriver.
C21_CreateDriverResolves ==
    /\ CreateDriverOrder
    /\ Unregistered /\ ret.config[1].type # "sqlite" =>
           /\ ret.threw
           /\ ret.error.type = ret.config[1].type
           /\ SuggestsRegistration(ret.error)

\* C21, amended: as stated, but the error names the type and suggests registerDriver
\* only for a type other than sqlite and mysql; for mysql without a factory the
\* error says that the MySQL driver is not yet implemented.
C21_CreateDriverResolvesMysql ==
    /\ CreateDriverOrder
    /\ Unregistered /\ ret.config[1].type \notin {"sqlite", "mysql"} =>
           /\ ret.threw
           /\ ret.error.type = ret.config[1].type
           /\ SuggestsRegistration(ret.error)
    /\ Unregistered /\ ret.config[1].type = "mysql" =>
           ret.threw /\ ret.error = MysqlNotImplemented

\* A factory registered for sqlite after another one constructs the driver of a
\* configuration the built-in driver would accept.
C21_Witness ==
    /\ ret.op = "createDriver"
    /\ ret.config[1] = SqliteConfig("a.sqlite")
    /\ "sqlite" \in DOMAIN driverRegistry
    /\ driverRegistry["sqlite"] = 2
    /\ ~ret.threw
    /\ \E d \in 1..Len(drivers) : d # ret.returned /\ drivers[d].by = 1
                                     /\ drivers[d].config.type = "sqlite"

\* createDriver throws for postgres without a factory.
C21_WitnessUnsupported ==
    /\ Unregistered
    /\ ret.config[1].type = "postgres"
    /\ ret.threw

(***************************************************************************)
(* The query builder: what the claims speak of.                            *)
(***************************************************************************)
\* The text of a statement: its pieces, one after the other.
RECURSIVE TextOf(_)
TextOf(sql) == IF Len(sql) = 0 THEN <<>> ELSE sql[1].text \o TextOf(Tail(sql))

\* The pieces of a statement from its WHERE to its ORDER BY or LIMIT.
ClauseOf(sql) ==
    LET w == At(sql, " WHERE ")
        ends == {i \in 1..Len(sql) : sql[i] \in {Lit(" ORDER BY "), Lit(" LIMIT ")}}
    IN  IF w = 0 THEN <<>>
        ELSE SubSeq(sql, w, IF ends = {} THEN Len(sql)
                            ELSE (CHOOSE i \in ends : \A j \in ends : i <= j) - 1)

\* ' WHERE c1 o1 ? AND c2 o2 ? ...' for conditions, the empty text for none.
RECURSIVE TermsText(_)
TermsText(conditions) ==
    IF Len(conditions) = 0 THEN <<>>
    ELSE conditions[1].column \o <<" ", conditions[1].operator, " ?">>
         \o (IF Len(conditions) = 1 THEN <<>> ELSE <<" AND ">>)
         \o TermsText(Tail(conditions))

WhereText(conditions) ==
    IF Len(conditions) = 0 THEN <<>> ELSE <<" WHERE ">> \o TermsText(conditions)

ValuesOf(conditions) == [i \in 1..Len(conditions) |-> conditions[i].value]

Ran(ops) == answer.op \in ops /\ ~answer.threw

\* C22: the WHERE clause that all(), first() and count() compile has one
\* '<column> <operator> ?' term per where() call, joined by AND in call order, the
\* parameters are the values in the same order, and a where() call with two
\* arguments compares with '='.
C22_WhereAndsInCallOrder ==
    /\ answer.op = "where" =>
           LET last == state.whereConditions[Len(state.whereConditions)]
           IN  /\ last.column = answer.args[1]
               /\ IF answer.args[3] = <<>>
                  THEN last.operator = "=" /\ last.value = answer.args[2][1]
                  ELSE last.operator = answer.args[2][1] /\ last.value = answer.args[3][1]
    /\ Ran({"all", "first", "count"}) =>
           /\ TextOf(ClauseOf(answer.sql)) = WhereText(state.whereConditions)
           /\ answer.params = ValuesOf(state.whereConditions)

\* all() ran with a condition on id given with two arguments before one on age
\* given with an operator.
C22_Witness ==
    /\ Ran({"all"})
    /\ Len(state.whereConditions) = 2
    /\ state.whereConditions[1] = [column |-> Id, operator |-> "=", value |-> 2]
    /\ state.whereConditions[2] = [column |-> Age, operator |-> ">", value |-> 1]
    /\ Len(answer.rows) = 1

\* count() ran with two conditions.
C22_WitnessCount ==
    /\ Ran({"count"})
    /\ Len(state.whereConditions) = 2
    /\ answer.value = 1

\* A returned row holds values of one row of the table.
FromTable(row) == \E r \in Range(UsersRows) : \A c \in DOMAIN row : row[c] = r[c]

\* C23: with a non-empty select list the rows that all(), first() and find() return
\* hold the selected columns only and the exclude list is ignored; with an exclude
\* list only, exactly the excluded columns are removed; with neither, the rows are
\* the rows of the table.
C23_SelectWinsOverExclude ==
    Ran({"all", "first", "find"}) =>
        \A i \in 1..Len(answer.rows) :
            /\ FromTable(answer.rows[i])
            /\ DOMAIN answer.rows[i] =
                   IF Len(state.selectColumns) > 0 THEN Range(state.selectColumns)
                   ELSE Columns \ Range(state.excludeColumns)

\* all() returned rows for a builder that selects id and excludes id.
C23_Witness ==
    /\ Ran({"all"})
    /\ state.selectColumns = <<Id>>
    /\ state.excludeColumns = <<Id>>
    /\ Len(answer.rows) = MaxTable
    /\ DOMAIN answer.rows[1] = {Id}

\* find() returned a row without its excluded column.
C23_WitnessExclude ==
    /\ Ran({"find"})
    /\ state.selectColumns = <<>>
    /\ state.excludeColumns = <<Age>>
    /\ Len(answer.rows) = 1
    /\ DOMAIN answer.rows[1] = {Id, Name}

\* The condition a where() call with arguments args adds.
ConditionOf(args) ==
    [column |-> args[1],
     operator |-> IF args[3] = <<>> THEN "=" ELSE args[2][1],
     value |-> IF args[3] = <<>> THEN args[2][1] ELSE args[3][1]]

\* What a builder call may change: the call answer' tells of led from state to state'.
OverwritesOrAccumulates ==
    /\ answer'.op = "limit" => state' = [state EXCEPT !.limitCount = <<answer'.args[1]>>]
    /\ answer'.op = "offset" => state' = [state EXCEPT !.offsetCount = <<answer'.args[1]>>]
    /\ answer'.op = "orderBy" =>
           state' = [state EXCEPT !.orderByClause =
                        <<[column |-> answer'.args[1], direction |-> answer'.args[2][1]]>>]
    /\ answer'.op = "where" =>
           state' = [state EXCEPT !.whereConditions = Append(@, ConditionOf(answer'.args))]
    /\ answer'.op = "select" =>
           state' = [state EXCEPT !.selectColumns = @ \o answer'.args]
    /\ answer'.op = "exclude" =>
           state' = [state EXCEPT !.excludeColumns = @ \o answer'.args]
    /\ answer'.op \in {"limit", "offset", "orderBy", "where", "select", "exclude"} =>
           answer'.returned = "this"
    /\ answer'.op = "all" /\ ~answer'.threw =>
           /\ Cardinality({i \in 1..Len(answer'.sql) : answer'.sql[i] = Lit(" ORDER BY ")})
                  = Len(state.orderByClause)
           /\ state.orderByClause # <<>> =>
                  answer'.sql[At(answer'.sql, " ORDER BY ") + 1].text
                      = state.orderByClause[1].column

\* C24: a limit(), offset() or orderBy() call replaces the value of an earlier call
\* (all() compiles the column of the last orderBy() only), a where(), select() or
\* exclude() call adds to what the earlier calls gave, in call order, no call changes
\* anything else, and every builder call returns the builder it was called on.
C24_OverwriteOrAccumulate == [][OverwritesOrAccumulates]_vars

\* limit(2) was called on a builder whose limit was 1.
C24_Witness ==
    /\ answer.op = "limit"
    /\ answer.was = <<1>>
    /\ state.limitCount = <<2>>

\* orderBy() was called on a builder that had an ordering.
C24_WitnessOrderBy ==
    /\ answer.op = "orderBy"
    /\ answer.was = <<[column |-> Id, direction |-> "asc"]>>
    /\ state.orderByClause = <<[column |-> Age, direction |-> "desc"]>>

\* select() was called on a builder that had a select list.
C24_WitnessSelect ==
    /\ answer.op = "select"
    /\ answer.was = <<Age>>
    /\ state.selectColumns = <<Age, Id>>

\* What a first() call does: the step from state to state' that answer' tells of.
FirstForcesLimitOnce ==
    answer'.op = "first" =>
        /\ answer'.sql = buildSelectQuery([state EXCEPT !.limitCount = <<1>>]).sql
        /\ answer'.sql[At(answer'.sql, " LIMIT ") + 1].text = <<"1">>
        /\ TextOf(ClauseOf(answer'.sql)) = WhereText(state.whereConditions)
        /\ answer'.params = ValuesOf(state.whereConditions)
        /\ Len(answer'.rows) <= 1
        /\ state'.limitCount = state.limitCount
        /\ state' = state

\* C25: first() compiles the query with LIMIT 1 whatever limit was accumulated, keeps
\* the accumulated where, orderBy and offset, returns one row or null, and leaves the
\* limit of the builder as it was before the call.
C25_FirstKeepsLimit == [][FirstForcesLimitOnce]_vars

\* first() returned a row of a builder whose limit is 2 and stays 2.
C25_Witness ==
    /\ Ran({"first"})
    /\ state.limitCount = <<2>>
    /\ Len(answer.rows) = 1

\* first() threw on a builder whose limit was 2.
C25_WitnessThrew ==
    /\ answer.op = "first"
    /\ answer.threw
    /\ state.limitCount = <<1>>

\* 'c1, c2, ...' for columns.
RECURSIVE ListText(_)
ListText(columns) ==
    IF Len(columns) = 0 THEN <<>>
    ELSE columns[1] \o (IF Len(columns) = 1 THEN <<>> ELSE <<", ">>) \o ListText(Tail(columns))

\* 'SELECT <the select list or *> FROM <table>'
SelectText(s) ==
    <<"SELECT ">> \o (IF Len(s.selectColumns) > 0 THEN ListText(s.selectColumns) ELSE <<"*">>)
    \o <<" FROM ">> \o s.table

\* The columns select() and exclude() leave of a row.
Kept(s) ==
    IF Len(s.selectColumns) > 0 THEN Range(s.selectColumns)
    ELSE Columns \ Range(s.excludeColumns)

\* C26: find(id) compiles 'SELECT <projection or *> FROM <table> WHERE id = ?' with
\* the id as the only parameter, whatever conditions, ordering, limit or offset the
\* builder holds, and returns the row of that id with the columns select() and
\* exclude() leave, or null.
C26_FindById ==
    Ran({"find"}) =>
        /\ TextOf(answer.sql) = SelectText(state) \o <<" WHERE ", "id", " ", "=", " ?">>
        /\ answer.params = answer.args
        /\ IF answer.args[1] \in 1..MaxTable
           THEN /\ Len(answer.rows) = 1
                /\ answer.rows[1] = [c \in Kept(state) |-> UsersRows[answer.args[1]][c]]
           ELSE answer.rows = <<>>

\* find(1) returned row 1 although the builder holds a condition that row 1 does not
\* meet and a limit of 0.
C26_Witness ==
    /\ Ran({"find"})
    /\ answer.args = <<1>>
    /\ state.whereConditions = <<[column |-> Id, operator |-> "=", value |-> 2]>>
    /\ state.limitCount = <<0>>
    /\ Len(answer.rows) = 1

\* find() returned the last row for a builder with an ordering and an offset.
C26_WitnessOrdered ==
    /\ Ran({"find"})
    /\ answer.args = <<MaxTable>>
    /\ state.orderByClause # <<>>
    /\ state.offsetCount = <<2>>
    /\ Len(answer.rows) = 1

\* find() of an id no row has returned null.
C26_WitnessNull ==
    /\ Ran({"find"})
    /\ answer.args = <<MaxTable + 1>>
    /\ answer.rows = <<>>

\* A row of the table meets a condition of the builder.
Meets(row, condition) ==
    IF condition.operator = "=" THEN row[condition.column] = condition.value
    ELSE row[condition.column] > condition.value

\* The rows of the table, in rowid order, that meet every condition of the builder.
Filtered(s) ==
    LET Test(row) == \A i \in 1..Len(s.whereConditions) : Meets(row, s.whereConditions[i])
    IN  SelectSeq(UsersRows, Test)

\* C27: count() compiles 'SELECT COUNT(*) FROM <table>' and the accumulated
\* conditions only, whatever select list, exclude list, limit, offset and ordering
\* the builder holds, and returns the number of rows that meet the conditions.
C27_CountHonorsWhereOnly ==
    Ran({"count"}) =>
        /\ TextOf(answer.sql) = <<"SELECT ", "COUNT(*)", " FROM ">> \o state.table
                                    \o WhereText(state.whereConditions)
        /\ answer.params = ValuesOf(state.whereConditions)
        /\ answer.value = Len(Filtered(state))

\* count() returned the number of rows above age 1 for a builder with that condition
\* and a limit of 1.
C27_Witness ==
    /\ Ran({"count"})
    /\ state.whereConditions = <<[column |-> Age, operator |-> ">", value |-> 1]>>
    /\ state.limitCount = <<1>>
    /\ answer.value = MaxTable - 1

\* count() returned the number of rows for a builder with an offset and a select list.
C27_WitnessOffset ==
    /\ Ran({"count"})
    /\ state.offsetCount = <<1>>
    /\ state.selectColumns = <<Name>>
    /\ answer.value = MaxTable

\* count() returned 0 for conditions that no row meets.
C27_WitnessNone ==
    /\ Ran({"count"})
    /\ Len(state.whereConditions) = 2
    /\ answer.value = 0

\* The rows that meet the conditions of the builder, in its ordering: rowid order
\* without orderBy().
InOrder(s) ==
    IF s.orderByClause = <<>> THEN Filtered(s)
    ELSE SortRows(Filtered(s), s.orderByClause[1].column,
                  IF s.orderByClause[1].direction = "asc" THEN "ASC" ELSE "DESC")

\* The rows at positions [k, k + n) of rows, counted from 0: k is 0 without an
\* offset, and n is without bound without a limit.
Page(rows, s) ==
    LET k == IF s.offsetCount = <<>> THEN 0 ELSE s.offsetCount[1]
        end == IF s.limitCount = <<>> THEN Len(rows) ELSE k + s.limitCount[1]
    IN  [i \in 1..(IF end < Len(rows) THEN (IF end > k THEN end - k ELSE 0)
                     ELSE (IF Len(rows) > k THEN Len(rows) - k ELSE 0)) |-> rows[k + i]]

\* C28: all() returns, of the rows that meet the conditions, in the ordering of the
\* builder, exactly those at positions [k, k + n) for offset k and limit n: without a
\* limit all the rows after the first k, without an offset the first n, none for a
\* limit of 0.
C28_AllReturnsWindow ==
    Ran({"all"}) =>
        answer.rows = [i \in 1..Len(Page(InOrder(state), state)) |->
                          [c \in Kept(state) |-> Page(InOrder(state), state)[i][c]]]

\* all() returned the second row: offset 1, limit 1.
C28_Witness ==
    /\ Ran({"all"})
    /\ state.offsetCount = <<1>>
    /\ state.limitCount = <<1>>
    /\ Len(answer.rows) = 1
    /\ answer.rows[1][Id] = 2

\* all() returned every row but the youngest, by ascending age: an ordering and an
\* offset.
C28_WitnessOrdered ==
    /\ Ran({"all"})
    /\ state.orderByClause = <<[column |-> Age, direction |-> "asc"]>>
    /\ state.offsetCount = <<1>>
    /\ Len(answer.rows) = MaxTable - 1
    /\ answer.rows[1][Age] = 2

\* all() returned every row but the first: an offset and no limit.
C28_WitnessOffsetOnly ==
    /\ Ran({"all"})
    /\ state.limitCount = <<>>
    /\ state.offsetCount = <<1>>
    /\ state.whereConditions = <<>>
    /\ Len(answer.rows) = MaxTable - 1

\* all() returned no row: a limit of 0.
C28_WitnessLimitZero ==
    /\ Ran({"all"})
    /\ state.limitCount = <<0>>
    /\ state.whereConditions = <<>>
    /\ answer.rows = <<>>

\* all() returned the one row that meets the condition: a limit of 2.
C28_WitnessLimitLarge ==
    /\ Ran({"all"})
    /\ state.limitCount = <<2>>
    /\ Len(Filtered(state)) = 1
    /\ Len(answer.rows) = 1

\* The statement a call compiles for a builder in state s.
Compiled(op, s, id) ==
    IF op = "all" THEN buildSelectQuery(s)
    ELSE IF op = "first" THEN buildSelectQuery([s EXCEPT !.limitCount = <<1>>])
    ELSE IF op = "count" THEN buildCountQuery(s)
    ELSE findQuery(s, id)

\* The builder in state s with the values vs in its conditions.
WithValues(s, vs) ==
    [s EXCEPT !.whereConditions = [i \in 1..Len(@) |-> [@[i] EXCEPT !.value = vs[i]]]]

\* The places of the placeholders in a statement.
Placeholders(sql) == {i \in 1..Len(sql) : sql[i] = Lit(" ?")}

\* C29: the text all(), first(), count() and find() compile is the same whatever the
\* values of the conditions and the id given to find() are, and the parameters are
\* those values, one for each placeholder, in the order of the placeholders.
C29_ValuesOnlyInParams ==
    Ran({"all", "first", "count", "find"}) =>
        /\ \A vs \in [1..Len(state.whereConditions) -> 0..MaxValue], id \in 0..(MaxTable + 1) :
               Compiled(answer.op, WithValues(state, vs), id).sql = answer.sql
        /\ \A i \in 1..Len(answer.sql) : answer.sql[i].kind # "value"
        /\ Cardinality(Placeholders(answer.sql)) = Len(answer.params)
        /\ answer.params = IF answer.op = "find" THEN answer.args
                           ELSE ValuesOf(state.whereConditions)

\* all() compiled two conditions with different values.
C29_Witness ==
    /\ Ran({"all"})
    /\ Len(state.whereConditions) = 2
    /\ answer.params = <<1, 2>>

\* find() compiled its statement for a builder with a condition.
C29_WitnessFind ==
    /\ Ran({"find"})
    /\ Len(state.whereConditions) = 1
    /\ answer.params = <<MaxTable>>

\* A piece of text is a name between double quotes, each double quote of the name
\* written twice: the quotes inside come in pairs.
RECURSIVE Paired(_)
Paired(string) ==
    IF Len(string) = 0 THEN TRUE
    ELSE IF string[1] # "\"" THEN Paired(Tail(string))
    ELSE Len(string) >= 2 /\ string[2] = "\"" /\ Paired(Tail(Tail(string)))

Quoted(string) ==
    /\ Len(string) >= 2
    /\ string[1] = "\""
    /\ string[Len(string)] = "\""
    /\ Paired(SubSeq(string, 2, Len(string) - 1))

\* C30: every table and column name interpolated into the text of a statement, by
\* the query builder and by the schema operations, stands between double quotes with
\* every double quote of the name doubled.
C30_IdentifiersQuoted ==
    \A i \in 1..Len(answer.sql) :
        answer.sql[i].kind = "identifier" => Quoted(answer.sql[i].text)

\* dropTable() compiled its statement for a name that holds a double quote.
C30_WitnessSchema ==
    /\ answer.op = "dropTable"
    /\ answer.args = <<(<<"we", "\"", "ird">>)>>
    /\ answer.sql[2].text = <<"\"", "we", "\"", "\"", "ird", "\"">>

(***************************************************************************)
(* The table builder.                                                      *)
(***************************************************************************)
\* The pieces of a statement between its pieces from and to, cut at the separators
\* ", ": the definitions and constraints of a CREATE TABLE statement.
RECURSIVE Parts(_, _, _)
Parts(statement, from, to) ==
    IF from > to THEN <<(<<>>)>>
    ELSE LET rest == Parts(statement, from + 1, to)
         IN  IF statement[from] = Lit(", ") THEN <<(<<>>)>> \o rest
             ELSE <<(<<statement[from]>> \o rest[1])>> \o Tail(rest)

\* The definition of column i in the CREATE TABLE statement.
DefinitionOf(statement, i) == Parts(statement, 4, Len(statement) - 1)[i]

\* The definition of the column in an ALTER TABLE ADD COLUMN statement.
AddedBy(statement) == SubSeq(statement, 4, Len(statement))

\* The suffixes a column definition carries after its name and type, in order:
\* 1 for NOT NULL, 2 for DEFAULT, 3 for UNIQUE, 4 for PRIMARY KEY, 0 for other text.
RECURSIVE Suffixes(_)
Suffixes(pieces) ==
    IF Len(pieces) = 0 THEN <<>>
    ELSE IF pieces[1] = Lit(" NOT NULL") THEN <<1>> \o Suffixes(Tail(pieces))
    ELSE IF pieces[1] = Lit(" DEFAULT ") /\ Len(pieces) >= 2 /\ pieces[2].kind = "literal"
         THEN <<2>> \o Suffixes(Tail(Tail(pieces)))
    ELSE IF pieces[1] = Lit(" UNIQUE") THEN <<3>> \o Suffixes(Tail(pieces))
    ELSE IF pieces[1] = Lit(" ") /\ Len(pieces) >= 2 /\ pieces[2] = Lit(PrimaryKey)
         THEN <<4>> \o Suffixes(Tail(Tail(pieces)))
    ELSE <<0>> \o Suffixes(Tail(pieces))

\* The type written after the name of a column, by the method that pushed it.
TypeOf(by) ==
    IF by = "increments" THEN <<" INTEGER ", PrimaryKey, " AUTOINCREMENT">>
    ELSE IF by \in {"integer", "foreignId"} THEN <<" INTEGER">>
    ELSE <<" TEXT">>

\* A column definition: the quoted name, the type, then suffixes.
AfterType(definition, by) == SubSeq(definition, 2 + Len(TypeOf(by)), Len(definition))

WellFormed(definition, by) ==
    /\ Len(definition) >= 1 + Len(TypeOf(by))
    /\ definition[1].kind = "identifier"
    /\ \A k \in 1..Len(TypeOf(by)) : definition[1 + k] = Lit(TypeOf(by)[k])

\* The PRIMARY KEY clauses of a column definition: the words outside its name.
PrimaryKeys(definition) ==
    Cardinality({k \in 1..Len(definition) : definition[k] = Lit(PrimaryKey)})

\* The columns of the builder whose callback is running, or of the latest statements.
ColumnsNow == IF Building THEN builder[1].columns ELSE executed.columns

\* C31: the flags nullable and notNull of a column are never both set, and the
\* definition of a column in CREATE TABLE carries NOT NULL exactly when the latest of
\* the calls nullable() and notNull() on it was notNull() or, when there was none,
\* when foreignId() made the column.
C31_NullableNotNullLastWins ==
    /\ \A i \in 1..Len(ColumnsNow) :
           ~(ColumnsNow[i].nullable = <<TRUE>> /\ ColumnsNow[i].notNull = <<TRUE>>)
    /\ executed.op = "createTable" =>
           \A i \in 1..Len(executed.columns) :
               (1 \in Range(Suffixes(AfterType(DefinitionOf(executed.statements[1], i),
                                               executed.made[i].by))))
               <=> \/ executed.made[i].last = "notNull"
                   \/ executed.made[i].last = "" /\ executed.made[i].by = "foreignId"

\* C32: in CREATE TABLE the suffixes of a column follow its name and type in the
\* order NOT NULL, DEFAULT, UNIQUE, PRIMARY KEY, each at most once; a column made by
\* increments() is its name and INTEGER PRIMARY KEY AUTOINCREMENT with no suffix; no
\* column definition holds two PRIMARY KEY clauses.
C32_SuffixOrder ==
    executed.op = "createTable" =>
        \A i \in 1..Len(executed.columns) :
            LET definition == DefinitionOf(executed.statements[1], i)
                by == executed.made[i].by
                suffixes == Suffixes(AfterType(definition, by))
            IN  /\ WellFormed(definition, by)
                /\ \A k \in 1..Len(suffixes) : suffixes[k] \in 1..4
                /\ \A k \in 1..(Len(suffixes) - 1) : suffixes[k] < suffixes[k + 1]
                /\ by = "increments" => suffixes = <<>>
                /\ PrimaryKeys(definition) <= 1

\* createTable() compiled a column that carries NOT NULL, DEFAULT and UNIQUE.
C32_Witness ==
    /\ executed.op = "createTable"
    /\ \E i \in 1..Len(executed.columns) :
           /\ executed.columns[i].defaultValue = <<[type |-> "string", text |-> <<"it", "'", "s">>]>>
           /\ DefinitionOf(executed.statements[1], i)
                  = <<Interp("identifier", <<"\"", "name", "\"">>), Lit(" TEXT"),
                      Lit(" NOT NULL"), Lit(" DEFAULT "),
                      Interp("literal", <<"'", "it", "'", "'", "s", "'">>), Lit(" UNIQUE")>>

\* createTable() compiled a column that carries DEFAULT, UNIQUE and PRIMARY KEY.
C32_WitnessPrimary ==
    /\ executed.op = "createTable"
    /\ \E i \in 1..Len(executed.columns) :
           Suffixes(AfterType(DefinitionOf(executed.statements[1], i), executed.made[i].by))
               = <<2, 3, 4>>

\* createTable() compiled a column made by increments() after another column.
C32_WitnessIncrements ==
    /\ executed.op = "createTable"
    /\ Len(executed.columns) = 2
    /\ executed.made[2].by = "increments"
    /\ DefinitionOf(executed.statements[1], 2)
           = <<Interp("identifier", <<"\"", "id", "\"">>), Lit(" INTEGER "), Lit(PrimaryKey),
               Lit(" AUTOINCREMENT")>>

\* C33: Schema.table() executes one ALTER TABLE ADD COLUMN statement for each column
\* of the builder, in the order of the columns, whose suffixes are those the column
\* carries in CREATE TABLE but PRIMARY KEY, with no PRIMARY KEY clause, and no CREATE
\* statement.
C33_AlterAddsColumns ==
    executed.op = "table" =>
        /\ Len(executed.statements) = Len(executed.columns)
        /\ \A i \in 1..Len(executed.columns) :
               LET statement == executed.statements[i]
                   by == executed.made[i].by
               IN  /\ SubSeq(statement, 1, 3)
                          = <<Lit("ALTER TABLE "), Interp("identifier", quote(executed.name)),
                              Lit(" ADD COLUMN ")>>
                   /\ statement[4] = Interp("identifier", quote(executed.columns[i].name))
                   /\ Suffixes(AfterType(AddedBy(statement), by))
                          = SelectSeq(Suffixes(AfterType(CreateDef(executed.columns[i]), by)),
                                      LAMBDA r : r # 4)
                   /\ PrimaryKeys(AddedBy(statement)) = 0

(***************************************************************************)
(* BaseModel.                                                              *)
(***************************************************************************)
\* C34: no row that all(), first() or find() returns, called on the class or on a
\* builder that began with a static method of the class, holds a protected field or
\* an excluded timestamp field.
C34_ProtectedNeverReturned ==
    answer.op \in {"all", "first", "find"} =>
        \A i \in 1..Len(answer.rows) :
            DOMAIN answer.rows[i] \cap Range(getFieldsToExcludeForModel(UsersModel)) = {}

(***************************************************************************)
(* C35.  close() on the handle of a transaction() call, outermost or       *)
(* nested, changes nothing: the connection stays open and inside its       *)
(* transaction with its savepoints, and an outermost call whose body       *)
(* succeeds after a handle was closed still commits; close() on the driver *)
(* closes the connection.                                                  *)
(***************************************************************************)
ClosedBy(id) == log' = Append(log, Ev("close", id, TRUE))

HandleClosed == \E i \in 1..Len(log) : log[i].ev = "close" /\ log[i].call # 0

DriverClosed == \E i \in 1..Len(log) : log[i].ev = "close" /\ log[i].call = 0

C35_HandleCloseIsNoOp ==
    /\ []((HandleClosed /\ ~DriverClosed) => db.open)
    /\ []((HandleClosed /\ OuterDone /\ calls[1].body = "ok") =>
              /\ calls[1].promise = "resolved"
              /\ ~Failed("COMMIT", 1)
              /\ WritesOf({k \in 1..Len(calls) :
                               \A a \in {k} \cup Ancestors(k) : calls[a].promise = "resolved"})
                     \subseteq db.committed.rows)
    /\ [][(\E id \in 1..Len(calls) : ClosedBy(id)) =>
              /\ db' = db
              /\ stack' = stack
              /\ calls' = calls]_vars
    /\ [][ClosedBy(0) => (db.open /\ ~db'.open)]_vars

\* An outermost call committed rows after its handle and the handle of a nested call
\* were closed... the nested handle was closed while its savepoint was open.
C35_Witness ==
    /\ OuterDone
    /\ calls[1].promise = "resolved"
    /\ calls[1].writes # {}
    /\ \E i \in 1..Len(log) :
           /\ log[i].ev = "close"
           /\ log[i].call \in Nesteds
           /\ \E j \in Inserts : i < j

\* The driver was closed after a call whose handle was closed had committed.
C35_WitnessDriver ==
    /\ ~db.open
    /\ HandleClosed
    /\ db.committed.rows # {}

(***************************************************************************)
(* C36.  exec() on the driver or on a handle returns the number of rows    *)
(* the statement changed.                                                  *)
(***************************************************************************)
C36_ExecReturnsAffected ==
    \A i \in 1..Len(log) : log[i].ev = "exec" => log[i].returned = log[i].changes

(***************************************************************************)
(* C37.  An outermost transaction() call whose body has settled has ended  *)
(* its transaction in exactly one way: when its promise settles the        *)
(* connection is outside a transaction with no savepoint left; the log     *)
(* holds one BEGIN and at most one successful COMMIT or ROLLBACK, exactly  *)
(* one unless the engine itself rolled back; the promise is resolved       *)
(* exactly when COMMIT succeeded, and a rejected call leaves none of the   *)
(* rows of its bodies unless the engine rolled back, also when COMMIT      *)
(* fails.  A call whose BEGIN fails invokes no body and issues neither     *)
(* COMMIT nor ROLLBACK.                                                    *)
(***************************************************************************)
Succeeded(e) == {i \in 1..Len(log) : log[i].ev = e /\ log[i].ok}

Events(e) == {i \in 1..Len(log) : log[i].ev = e}

C37_CommittedOrRolledBack ==
    /\ [][(stack # <<>> /\ stack' = <<>>) => (~db'.inTx /\ db'.sps = <<>>)]_vars
    /\ []((OuterDone /\ calls[1].body # "none") =>
              /\ ~db.inTx
              /\ Cardinality(Events("BEGIN")) = 1
              /\ calls[1].promise \in {"resolved", "rejected"}
              /\ Cardinality(Succeeded("COMMIT")) + Cardinality(Succeeded("ROLLBACK")) <= 1
              /\ Events("ABORT") = {} =>
                     Succeeded("COMMIT") \cup Succeeded("ROLLBACK") # {}
              /\ calls[1].promise = "resolved" <=> Succeeded("COMMIT") # {}
              /\ (calls[1].promise = "rejected" /\ Events("ABORT") = {}) =>
                     WritesOf(1..Len(calls)) \cap db.content.rows = {})
    /\ []((calls # <<>> /\ calls[1].body = "none") =>
              /\ calls[1].promise = "rejected"
              /\ calls[1].error = EngineError("BEGIN")
              /\ log = <<Ev("BEGIN", 1, FALSE)>>
              /\ Len(calls) = 1)

\* COMMIT failed after a body that had inserted a row, ROLLBACK followed and the
\* promise rejected.
C37_Witness ==
    /\ OuterDone
    /\ calls[1].body = "ok"
    /\ calls[1].promise = "rejected"
    /\ WritesOf(1..Len(calls)) # {}
    /\ Failed("COMMIT", 1)
    /\ Succeeded("ROLLBACK") # {}
    /\ db.open

\* BEGIN failed on a connection that holds rows committed by an earlier call.
C37_WitnessBegin ==
    /\ calls # <<>>
    /\ calls[1].body = "none"
    /\ db.committed.rows # {}

(***************************************************************************)
(* C38.  A statement a body executes through the ambient driver or the     *)
(* outer driver while the transaction is active is part of the             *)
(* transaction: its row is not committed while the outermost call runs, is *)
(* gone when the call rejects or an enclosing nested call rolls back, and  *)
(* is committed when the outermost call and every enclosing call resolve.  *)
(***************************************************************************)
Ambient == {i \in 1..Len(log) : log[i].ev = "ambient"}

\* The calls that resolved inside calls that all resolved.
KeptCalls == {k \in 1..Len(calls) : \A a \in {k} \cup Ancestors(k) : calls[a].promise = "resolved"}

C38_AmbientStatementsJoin ==
    /\ stack # <<>> => WritesOf(1..Len(calls)) \cap db.committed.rows = {}
    /\ (OuterDone /\ calls[1].body # "none") =>
           /\ {r \in db.content.rows : r.by # 0} = WritesOf(KeptCalls)
           /\ db.committed = db.content
    /\ (OuterDone /\ calls[1].promise = "rejected") =>
           WritesOf(1..Len(calls)) \cap db.content.rows = {}

\* A rejected outermost call whose body had made a statement through the ambient
\* driver and another through its handle.
C38_Witness ==
    /\ OuterDone
    /\ calls[1].promise = "rejected"
    /\ \E i \in Ambient : log[i].call = 1
    /\ \E i \in Inserts : log[i].call = 1

\* A resolved outermost call after an ambient statement of its own and one inside a
\* nested call that was rolled back.
C38_WitnessCommitted ==
    /\ OuterDone
    /\ calls[1].promise = "resolved"
    /\ \E i \in Ambient : log[i].call = 1
    /\ \E i \in Ambient : log[i].call \in Nesteds /\ Rejected(log[i].call)

(***************************************************************************)
(* C39.  Whatever up() and down() calls were made, two executions of up()  *)
(* overlapping included, no two rows of the ledger hold the same name, and *)
(* the up operation of a unit is never called while the ledger holds a row *)
(* of its name.                                                            *)
(***************************************************************************)
LedgerNames == {r.name : r \in db.content.ledger}

\* The running job calls the up operation of a unit.
CallsUp(p, name) ==
    /\ jobs # <<>>
    /\ Head(jobs) = p
    /\ runs[p].at = "load"
    /\ Head(runs[p].todo) = name
    /\ db'.content.schema = db.content.schema \cup {name}
    /\ runs'[p].at \in {"up", "failed"}

C39_EachNameOnce ==
    /\ [](\A r1, r2 \in db.content.ledger : r1.name = r2.name => r1 = r2)
    /\ [][\A p \in 1..MaxUps, name \in 1..MaxNames :
              (CallsUp(p, name) /\ runs'[p].at = "up") => name \notin LedgerNames]_vars

\* Two executions overlapped: one logged two units and is about to commit while
\* the other, whose status() had found them pending, has failed at BEGIN.
C39_Witness ==
    \E p, q \in 1..MaxUps :
        /\ runs[p].at = "commit"
        /\ Cardinality(LedgerNames) >= 2
        /\ runs[q].result = "BEGIN failed"

\* Two executions overlapped and both resolved: the second found nothing pending.
C39_WitnessBoth ==
    \E p, q \in 1..MaxUps :
        /\ p # q
        /\ runs[p].result = "resolved"
        /\ runs[q].result = "resolved"
        /\ db.content.ledger # {}

(***************************************************************************)
(* C40.  A nested transaction() call whose body failed has rolled back to  *)
(* its savepoint and returned a promise rejected with the error of the     *)
(* body, whether the body threw or returned a promise that rejected.       *)
(***************************************************************************)
C40_NestedFailureRejects ==
    \A k \in Nesteds :
        (Done(k) /\ calls[k].body = "err") =>
            /\ Idx("ROLLBACK TO", k) # {}
            /\ calls[k].promise = "rejected"
            /\ calls[k].error = calls[k].bodyError

====
